---------------------------- MODULE Spec2Model ----------------------------
(***************************************************************************)
(* A model of the ISO9660 reader vendored in docker-machine-driver-qemu    *)
(* (package iso9660: MultiFile, Image, FileSystem, File) and of the        *)
(* extraction sequence qemu.go runs on it.                                 *)
(*                                                                         *)
(* Go strings are TLA+ strings, read character by character with SubSeq.   *)
(* Byte slices are sequences of integers 0..255 (TLA+ sequences start at   *)
(* 1, so Go's b[i] is b[i+1] here).  Errors are strings naming the Go      *)
(* error value; the string nil is no error.                                *)
(***************************************************************************)
EXTENDS Integers, Sequences, FiniteSets, TLC

VARIABLES
    fs,      \* the FileSystem: curdir, dirs, files (pvd and paths are fixed by the medium)
    fh,      \* the File handle under test: fi, dp (buf, start, end, lba, eof), off
    ret,     \* what the last call returned
    hist,    \* what the test harness remembers of earlier calls on fh
    mf,      \* the MultiFile under test: sources, offs, size, pos
    probe    \* the Buffer handed to NewImage and what NewImage returned

vars == <<fs, fh, ret, hist, mf, probe>>

----------------------------------------------------------------------------
(* Integers and bytes *)

Min(a, b) == IF a < b THEN a ELSE b

Max(a, b) == IF a > b THEN a ELSE b

\* A bit of a byte: Go's p & mask != 0 for a one-bit mask.
BitSet(byte, mask) == (byte \div mask) % 2 = 1

LE16(v) == <<v % 256, (v \div 256) % 256>>

LE32(v) == <<v % 256, (v \div 256) % 256, (v \div 65536) % 256, (v \div 16777216) % 256>>

BE32(v) == <<(v \div 16777216) % 256, (v \div 65536) % 256, (v \div 256) % 256, v % 256>>

BE16(v) == <<(v \div 256) % 256, v % 256>>

\* binary.LittleEndian.Uint16(b[at:]) and friends; at is Go's 0-based index.
Uint16LE(b, at) == b[at + 1] + 256 * b[at + 2]

Uint32LE(b, at) == b[at + 1] + 256 * b[at + 2] + 65536 * b[at + 3] + 16777216 * b[at + 4]

Uint32BE(b, at) == 16777216 * b[at + 1] + 65536 * b[at + 2] + 256 * b[at + 3] + b[at + 4]

Uint16BE(b, at) == 256 * b[at + 1] + b[at + 2]

Zeros(n) == [i \in 1..n |-> 0]

\* Go's b[lo:hi] of a byte slice.
Slice(b, lo, hi) == SubSeq(b, lo + 1, hi)

\* Go's copy(dst[at:], src) when it fits: dst with src written at 0-based index at.
\* dst grows when the write ends past Len(dst) (the model keeps only the part of
\* a Go buffer that has been written or is still live).
WriteAt(dst, at, src) ==
    SubSeq(dst, 1, at) \o Zeros(Max(0, at - Len(dst))) \o src
    \o SubSeq(dst, at + Len(src) + 1, Len(dst))

----------------------------------------------------------------------------
(* Strings: strings.ToUpper, string(bytes), path.Clean, path.Join, path.Split *)

Lower == "abcdefghijklmnopqrstuvwxyz"

Upper == "ABCDEFGHIJKLMNOPQRSTUVWXYZ"

\* The printable ASCII characters, in code order from 32 (space) to 126 (~).
\* Code 96, the backquote, cannot be written in a TLA+ string and is held by
\* a question mark.
Ascii == " !\"#$%&'()*+,-./0123456789:;<=>?@ABCDEFGHIJKLMNOPQRSTUVWXYZ[\\]^_?abcdefghijklmnopqrstuvwxyz{|}~"

CharAt(s, i) == SubSeq(s, i, i)

\* The character of a byte.  Bytes outside the printable range have no TLA+
\* character; they are rendered as a question mark (the media of this model hold such bytes
\* only in the one-byte names 0 and 1, which readDir and readPath replace).
Chr(b) == IF b >= 32 /\ b <= 126 THEN CharAt(Ascii, b - 31) ELSE "?"

\* The byte of each printable character.
OrdOf == [c \in {CharAt(Ascii, i) : i \in 1..Len(Ascii)} |->
             31 + (CHOOSE i \in 1..Len(Ascii) : CharAt(Ascii, i) = c)]

Ord(c) == OrdOf[c]

RECURSIVE StringOf(_)
StringOf(bytes) == IF bytes = <<>> THEN "" ELSE Chr(Head(bytes)) \o StringOf(Tail(bytes))

BytesOf(s) == [i \in 1..Len(s) |-> Ord(CharAt(s, i))]

\* The upper-case letter of each lower-case letter.
UpperOf == [c \in {CharAt(Lower, i) : i \in 1..26} |->
               CharAt(Upper, CHOOSE i \in 1..26 : CharAt(Lower, i) = c)]

UpperChar(c) == IF c \in DOMAIN UpperOf THEN UpperOf[c] ELSE c

RECURSIVE ToUpper(_)
ToUpper(s) ==
    IF s = "" THEN "" ELSE UpperChar(CharAt(s, 1)) \o ToUpper(SubSeq(s, 2, Len(s)))

\* strings.LastIndex(s, slash) + 1: the 1-based index of the last slash, 0 if none.
RECURSIVE LastSlash(_, _)
LastSlash(s, i) ==
    IF i = 0 THEN 0 ELSE IF CharAt(s, i) = "/" THEN i ELSE LastSlash(s, i - 1)

\* The cut of path.Split after the last slash, at i.
SplitAt(p, i) == [dir |-> SubSeq(p, 1, i), base |-> SubSeq(p, i + 1, Len(p))]

\* path.Split: everything up to and including the last slash, and the rest.
Split(p) == SplitAt(p, LastSlash(p, Len(p)))

\* The slash-separated elements of a path, empty ones included.
RECURSIVE Elements(_)
ElementsAt(p, i) ==
    IF i = 0 THEN <<p>>
    ELSE Append(Elements(SubSeq(p, 1, i - 1)), SubSeq(p, i + 1, Len(p)))

Elements(p) == ElementsAt(p, LastSlash(p, Len(p)))

\* The pass of path.Clean over the elements: drop the empty and the dot
\* elements, let a dot-dot cancel the element before it, keep a leading
\* dot-dot only in a path that is not rooted.
RECURSIVE CleanElements(_, _, _)
CleanElements(elems, out, rooted) ==
    IF elems = <<>> THEN out
    ELSE LET e == Head(elems)
             rest == Tail(elems)
         IN IF e = "" \/ e = "." THEN CleanElements(rest, out, rooted)
            ELSE IF e = ".."
                 THEN IF out # <<>> /\ out[Len(out)] # ".."
                      THEN CleanElements(rest, SubSeq(out, 1, Len(out) - 1), rooted)
                      ELSE IF rooted THEN CleanElements(rest, out, rooted)
                           ELSE CleanElements(rest, Append(out, ".."), rooted)
                 ELSE CleanElements(rest, Append(out, e), rooted)

RECURSIVE JoinElements(_)
JoinElements(elems) ==
    IF elems = <<>> THEN ""
    ELSE IF Len(elems) = 1 THEN elems[1]
         ELSE elems[1] \o "/" \o JoinElements(Tail(elems))

\* The end of path.Clean: the cleaned elements joined are out.
CleanOut(rooted, out) ==
    IF rooted THEN "/" \o out
    ELSE IF out = "" THEN "." ELSE out

\* path.Clean
Clean(p) ==
    IF p = "" THEN "."
    ELSE CleanOut(CharAt(p, 1) = "/",
                  JoinElements(CleanElements(Elements(p), <<>>, CharAt(p, 1) = "/")))

\* path.Join of two elements: empty elements are ignored, the rest joined
\* with a slash and cleaned; the empty string when both are empty.
Join(a, b) ==
    IF a = "" /\ b = "" THEN ""
    ELSE Clean(IF a = "" THEN b ELSE IF b = "" THEN a ELSE a \o "/" \o b)

----------------------------------------------------------------------------
(* The byte sources (os.File) and MultiFile *)

\* A source is an opened OS file: [size, kind, ...].  Kind bytes carries its
\* content as a sequence; kind blank is all zero except that the five
\* characters of the magic stand at offsets at+1 .. at+5 for every at in
\* its field magicAt (a large image, never written out byte by byte).
BlankByte(src, pos) ==
    IF \E at \in src.magicAt : pos > at /\ pos <= at + 5
    THEN LET at == CHOOSE a \in src.magicAt : pos > a /\ pos <= a + 5
         IN Ord(CharAt("CD001", pos - at))
    ELSE 0

\* bytes are the bytes of a source from offset off on; the part of the patch
\* p = [at, bytes] that falls among them is written over them.
Overlay(bytes, off, p, lo, hi) ==
    IF lo >= hi THEN bytes
    ELSE WriteAt(bytes, lo - off, SubSeq(p.bytes, lo - p.at + 1, hi - p.at))

RECURSIVE Patched(_, _, _)
Patched(bytes, off, patches) ==
    IF patches = <<>> THEN bytes
    ELSE Patched(Overlay(bytes, off, Head(patches), Max(Head(patches).at, off),
                         Min(Head(patches).at + Len(Head(patches).bytes), off + Len(bytes))),
                 off, Tail(patches))

\* The n bytes of a source from offset off on.  A source is kept as its
\* bytes, as zeros with the magic at some places (blank), or as zeros with
\* runs of bytes written at some places (patched).
SrcBytes(src, off, n) ==
    IF src.kind = "bytes" THEN SubSeq(src.bytes, off + 1, off + n)
    ELSE IF src.kind = "patched" THEN Patched(Zeros(n), off, src.patches)
         ELSE [i \in 1..n |-> BlankByte(src, off + i - 1)]

BytesSource(bytes) == [size |-> Len(bytes), kind |-> "bytes", bytes |-> bytes]

BlankSource(size, magicAt) == [size |-> size, kind |-> "blank", magicAt |-> magicAt]

PatchedSource(size, patches) == [size |-> size, kind |-> "patched", patches |-> patches]

\* os.File.ReadAt(p, off) with len(p) = length: the bytes available at off, and
\* io.EOF when they are fewer than length; a negative offset is an error.
FileRead(src, length, off, n) ==
    [n |-> n, err |-> IF n < length THEN "EOF" ELSE "nil", data |-> SrcBytes(src, off, n)]

FileReadAt(src, length, off) ==
    IF off < 0 THEN [n |-> 0, err |-> "ErrNegativeOffset", data |-> <<>>]
    ELSE FileRead(src, length, off, Max(0, Min(length, src.size - off)))

\* NewMultiFile's offs: offs[0] = 0 and offs[i] = offs[i-1] + size of file i.
NextOff(offs, size) == Append(offs, offs[Len(offs)] + size)

RECURSIVE OffsOf(_, _)
OffsOf(files, i) ==
    IF i = 1 THEN <<0>> ELSE NextOff(OffsOf(files, i - 1), files[i].size)

RECURSIVE SumSizes(_)
SumSizes(files) == IF files = <<>> THEN 0 ELSE files[1].size + SumSizes(Tail(files))

\* NewMultiFile when every file opens: files, offs, size, pos.
NewMultiFile(files) ==
    [files |-> files,
     offs |-> IF files = <<>> THEN <<>> ELSE OffsOf(files, Len(files)),
     size |-> SumSizes(files),
     pos |-> 0]

\* The width int64 is scaled down to, so that a sum of file sizes that
\* leaves the range is within reach: offsets are kept in OffBits bits, two's
\* complement.
OffBits == 16

\* An integer sum as the machine keeps it.
Wrapped(x) == ((x + 2^(OffBits - 1)) % 2^OffBits) - 2^(OffBits - 1)

\* MultiFile.Close: every file held in r.files is closed; the entries of
\* the sources not stored yet are nil files, whose Close does nothing.
MultiClose(stored) == stored

\* The loop of NewMultiFile from source i on.  A named source either fails
\* to open (kind missing), opens but fails the size query (unstatable), or
\* opens with a size.  stored are the indices held in r.files, offs and
\* size the fields of r; the result has the error, the sources opened and
\* the sources closed when NewMultiFile returns.  The deferred function
\* closes r when the variable err is not nil.
RECURSIVE NewMultiFileLoop(_, _, _, _, _)

\* Source i has been opened and its size taken: off is r.offs[i].
NewMultiFileStored(names, i, stored, offs, size, off) ==
    IF off < 0
    THEN [err |-> "files too large", opened |-> 1..i, closed |-> {}, offs |-> offs,
          size |-> size]
    ELSE NewMultiFileLoop(names, i + 1, stored \cup {i}, Append(offs, off), size)

NewMultiFileLoop(names, i, stored, offs, size) ==
    IF i > Len(names)
    THEN [err |-> "nil", opened |-> 1..Len(names), closed |-> {}, offs |-> offs, size |-> size]
    ELSE IF names[i].kind = "missing"
         THEN [err |-> "ErrNotExist", opened |-> 1..(i - 1), closed |-> MultiClose(stored),
               offs |-> offs, size |-> size]
         ELSE IF names[i].kind = "unstatable"
              THEN [err |-> "ErrStat", opened |-> 1..i, closed |-> MultiClose(stored),
                    offs |-> offs, size |-> size]
              ELSE NewMultiFileStored(names, i, stored, offs, Wrapped(size + names[i].size),
                                      IF i > 1 THEN Wrapped(offs[i - 1] + names[i].size) ELSE 0)

\* NewMultiFile(name...) on named sources that may fail to open.
NewMultiFileOn(names) == NewMultiFileLoop(names, 1, {}, <<>>, 0)

\* The binary search of fileAt over 0-based indices lo..hi.
RECURSIVE FileAtSearch(_, _, _, _)
FileAtSearch(m, pos, lo, hi) ==
    IF lo < hi
    THEN LET mid == lo + ((hi - lo) \div 2)
         IN IF m.offs[mid + 1] < pos
            THEN FileAtSearch(m, pos, mid + 1, hi)
            ELSE FileAtSearch(m, pos, lo, mid)
    ELSE lo

\* The end of fileAt: lo has come out of the search and been stepped back.
FileAtIndex(m, pos, lo) == IF m.offs[lo + 1] > pos THEN 0 ELSE lo + 1

\* The step back of fileAt on the lo the search returned.
FileAtFound(m, pos, lo) == FileAtIndex(m, pos, IF lo > 0 THEN lo - 1 ELSE lo)

\* MultiFile.fileAt: the 1-based index of the file backing pos, 0 for nil.
FileAt(m, pos) ==
    IF Len(m.files) = 0 \/ pos < 0 THEN 0
    ELSE FileAtFound(m, pos, FileAtSearch(m, pos, 0, Len(m.files) - 1))

\* The loop of MultiFile.ReadAt: f the current file, n the bytes read so far.
RECURSIVE MultiReadLoop(_, _, _, _, _, _)
\* After io.EOF from file f with the buffer not full: xf is the file at the
\* new offset.
MultiReadOn(m, length, f, off, n, data, xf) ==
    IF xf = 0 \/ xf = f THEN [n |-> n, err |-> "EOF", data |-> data]
    ELSE MultiReadLoop(m, length, xf, off, n, data)

\* The switch on what f.ReadAt returned (r); n and data include it.
MultiReadSwitch(m, length, f, off, n, data, r) ==
    IF r.err # "nil" /\ r.err # "EOF" THEN [n |-> n, err |-> r.err, data |-> data]
    ELSE IF r.err = "EOF"
         THEN IF n = length THEN [n |-> n, err |-> "EOF", data |-> data]
              ELSE MultiReadOn(m, length, f, off + r.n, n, data, FileAt(m, off + r.n))
         ELSE [n |-> n, err |-> "nil", data |-> data]

MultiReadGot(m, length, f, off, n, data, r) ==
    MultiReadSwitch(m, length, f, off, n + r.n, data \o r.data, r)

MultiReadLoop(m, length, f, off, n, data) ==
    MultiReadGot(m, length, f, off, n, data, FileReadAt(m.files[f], length - n, off))

\* MultiFile.ReadAt(p, off) with len(p) = length.
MultiReadFrom(m, length, off, f) ==
    IF f = 0 THEN [n |-> 0, err |-> "EOF", data |-> <<>>]
    ELSE MultiReadLoop(m, length, f, off, 0, <<>>)

MultiReadAt(m, length, off) == MultiReadFrom(m, length, off, FileAt(m, off))

\* os.SEEK_SET, os.SEEK_CUR, os.SEEK_END
SEEK_SET == 0

SEEK_CUR == 1

SEEK_END == 2

\* MultiFile.Seek: the new position and the error.
MultiSeekTo(m, target) ==
    IF target < 0 THEN [pos |-> m.pos, n |-> 0, err |-> "ErrInvalid"]
    ELSE [pos |-> target, n |-> target, err |-> "nil"]

MultiSeek(m, off, whence) ==
    IF whence \notin {SEEK_SET, SEEK_CUR, SEEK_END} THEN [pos |-> m.pos, n |-> 0, err |-> "ErrInvalid"]
    ELSE MultiSeekTo(m, IF whence = SEEK_SET THEN off
                        ELSE IF whence = SEEK_CUR THEN off + m.pos
                             ELSE off + m.size)

\* MultiFile.Read: ReadAt at the position, which advances only without error.
MultiReadMoved(m, r) ==
    [pos |-> IF r.err # "nil" THEN m.pos ELSE m.pos + r.n,
     n |-> r.n, err |-> r.err, data |-> r.data]

MultiRead(m, length) == MultiReadMoved(m, MultiReadAt(m, length, m.pos))

----------------------------------------------------------------------------
(* Image: a Buffer read as a run of sectors *)

minSectorLength == 2048

maxSectorLength == 2456

magic == "CD001"

PregapOffset == 150 * 2048

sectorFormats ==
    << [size |-> 2048, offset |-> 0, start |-> 0],
       [size |-> 2336, offset |-> 0, start |-> 0],
       [size |-> 2352, offset |-> 0, start |-> 24],
       [size |-> 2448, offset |-> 0, start |-> 24],
       [size |-> 2048, offset |-> PregapOffset, start |-> 0],
       [size |-> 2352, offset |-> PregapOffset, start |-> 24],
       [size |-> 2448, offset |-> PregapOffset, start |-> 24],
       [size |-> 2048, offset |-> -8, start |-> 0],
       [size |-> 2352, offset |-> -8, start |-> 24],
       [size |-> 2448, offset |-> -8, start |-> 24] >>

\* The byte offset in the buffer of logical sector lba under a sector format.
SectorPos(sector, lba) == (lba * sector.size) + sector.start + sector.offset

\* The end of ReadSector: r is what m.ReadAt returned.
SectorRead(img, blen, r) ==
    IF r.err # "nil" THEN r
    ELSE IF blen < img.sector.size THEN [r EXCEPT !.err = "ErrShortBuffer"]
         ELSE IF r.n < minSectorLength THEN [r EXCEPT !.err = "ErrUnexpectedEOF"]
              ELSE r

\* Image.ReadSector(lba, b) with len(b) = blen, on an image [buffer, sector].
ReadSector(img, lba, blen) ==
    SectorRead(img, blen,
               MultiReadAt(img.buffer, IF blen > img.sector.size THEN img.sector.size ELSE blen,
                           SectorPos(img.sector, lba)))

\* Image.NumSectors
NumSectors(img) ==
    IF img.buffer.size % img.sector.size # 0
    THEN (img.buffer.size \div img.sector.size) + 1
    ELSE img.buffer.size \div img.sector.size

\* Image.SectorSize
SectorSize(img) == img.sector.size

\* The loop of NewImage from candidate k on: the first read that fails ends
\* it with the wrapped read error, the first sector with the magic at bytes
\* [1,6) ends it with that format, and image.ErrFormat is left for the end.
RECURSIVE NewImageFrom(_, _)
\* One turn of the loop: r is what ReadSector(16, p) returned under format k.
NewImageTry(b, k, r) ==
    IF r.err # "nil" THEN [err |-> "ErrReadingImage", format |-> 0]
    ELSE IF StringOf(Slice(r.data, 1, 6)) = magic
         THEN [err |-> "nil", format |-> k]
         ELSE NewImageFrom(b, k + 1)

NewImageFrom(b, k) ==
    IF k > Len(sectorFormats) THEN [err |-> "ErrFormat", format |-> 0]
    ELSE NewImageTry(b, k, ReadSector([buffer |-> b, sector |-> sectorFormats[k]], 16,
                                      maxSectorLength))

\* NewImage(b): the error and the index in sectorFormats of the format chosen.
NewImage(b) == NewImageFrom(b, 1)

----------------------------------------------------------------------------
(* The on-disk records: readDir, readPath *)

modeDir == 2

\* The directory value readDir returns for no record (directory{}).
NoDirectory ==
    [Siz |-> 0, ExSize |-> 0, LBA |-> 0, Length |-> 0, Time |-> Zeros(7),
     Flags |-> 0, IlSize |-> 0, IlGap |-> 0, Seq |-> 0, Nam |-> ""]

\* The name of a record: the bytes 0 and 1 alone stand for dot and dot-dot,
\* and the name is cleaned as a path.
RecordName(bytes) ==
    Clean(IF bytes = <<0>> THEN "." ELSE IF bytes = <<1>> THEN ".." ELSE StringOf(bytes))

\* readDir(p): one directory record decoded from the front of p.
readDir(p) ==
    IF \/ Len(p) < 34
       \/ Len(p) < 34 + p[33]
       \/ (BitSet(p[26], modeDir) /\ Len(p) < p[1])
    THEN [err |-> "ErrUnexpectedEOF", d |-> NoDirectory]
    ELSE [err |-> "nil",
          d |-> [Siz |-> p[1], ExSize |-> p[2], LBA |-> Uint32LE(p, 2),
                 Length |-> Uint32LE(p, 10), Time |-> Slice(p, 18, 25),
                 Flags |-> p[26], IlSize |-> p[27], IlGap |-> p[28],
                 Seq |-> Uint16LE(p, 28), Nam |-> RecordName(Slice(p, 33, 33 + p[33]))]]

\* directory.IsDir, Name, Size
IsDir(d) == BitSet(d.Flags, modeDir)

NameOf(d) == d.Nam

SizeOf(d) == d.Length

\* directory.Mode: the mode bits, os.ModeDir when the directory flag is set.
Mode(d) == IF BitSet(d.Flags, modeDir) THEN {"ModeDir"} ELSE {}

\* What the Go runtime stops the program with when a slice of length len is
\* indexed at i >= len.
IndexPanic == "panic: index out of range"

\* The arguments directory.ModTime hands to time.Date, p the slice d.Time[:].
DateOf(p) ==
    [year |-> p[1] + 1900, month |-> p[2], day |-> p[3], hour |-> p[4], minute |-> p[5],
     second |-> p[6]]

\* directory.ModTime: p is the slice d.Time[:], of the seven bytes of the
\* field; the date is built from p[0] .. p[5], then p[7] is indexed, which
\* the runtime checks against the length of the slice.  The value of t.Add is
\* dropped, so past that index the date would be returned as it was built.
ModTime(d) ==
    IF 7 < Len(d.Time) THEN [err |-> "nil", t |-> <<DateOf(d.Time)>>]
    ELSE [err |-> IndexPanic, t |-> <<>>]

\* readPath(r, b): one path table record decoded from the front of b; order
\* is LE or BE, the byte order of the table copy in use.
readPath(order, b) ==
    IF Len(b) = 0 THEN [err |-> "ErrUnexpectedEOF", p |-> [Size |-> 0]]
    ELSE LET size == 8 + b[1] + (IF b[1] % 2 # 0 THEN 1 ELSE 0)
         IN IF size > Len(b) THEN [err |-> "ErrUnexpectedEOF", p |-> [Size |-> 0]]
            ELSE [err |-> "nil",
                  p |-> [Size |-> size, ExSize |-> b[2],
                         LBA |-> IF order = "LE" THEN Uint32LE(b, 2) ELSE Uint32BE(b, 2),
                         Parent |-> IF order = "LE" THEN Uint16LE(b, 6) ELSE Uint16BE(b, 6),
                         Name |-> RecordName(Slice(b, 8, 8 + b[1]))]]

----------------------------------------------------------------------------
(* The medium: a minimal ISO9660 image in plain 2048-byte sectors          *)
(*   /BOOT/VMLINUZ64.;1   /BOOT/INITRD.IMG;1   /BOOT/ISOLINUX/BOOT.CAT;1   *)
(*   /BOOT/ISOLINUX/CFG/  (an empty directory)   /EMPTY.;1                 *)

\* Where each extent of the medium lies (logical sector) and how long each
\* file is (bytes).  The kernel spans three sectors and ends inside the
\* third, the initrd fills one sector exactly.
Layout ==
    [pathTableLE |-> 18, pathTableBE |-> 19, root |-> 20, boot |-> 21, isolinux |-> 22,
     cfg |-> 23, vmlinuz |-> 24, vmlinuzLen |-> 4196, initrd |-> 27, initrdLen |-> 2048,
     bootcat |-> 28, bootcatLen |-> 10, empty |-> 29, emptyLen |-> 0, sectors |-> 29]

\* The content of the file at logical sector lba: byte k of it.
ContentByte(lba, k) == ((k % 127) + (3 * lba)) % 127

Content(lba, len) == [i \in 1..len |-> ContentByte(lba, i - 1)]

PadTo(bytes, n) == bytes \o Zeros(n - Len(bytes))

\* 18 June 2017, 12:30:45, GMT offset 0
Stamp == <<117, 6, 18, 12, 30, 45, 0>>

\* A directory record as ECMA-119 9.1 lays it out; nameBytes is the file
\* identifier, padded to make the record length even.
DirRecordBytes(lba, len, flags, nameBytes) ==
    LET n == Len(nameBytes)
        pad == IF n % 2 = 0 THEN <<0>> ELSE <<>>
    IN <<33 + n + Len(pad), 0>> \o LE32(lba) \o BE32(lba) \o LE32(len) \o BE32(len)
       \o Stamp \o <<flags, 0, 0>> \o LE16(1) \o BE16(1) \o <<n>> \o nameBytes \o pad

\* A path table record (ECMA-119 9.4) of the little-endian table.
PathRecordBytesLE(lba, parent, nameBytes) ==
    <<Len(nameBytes), 0>> \o LE32(lba) \o LE16(parent) \o nameBytes
    \o (IF Len(nameBytes) % 2 = 1 THEN <<0>> ELSE <<>>)

PathRecordBytesBE(lba, parent, nameBytes) ==
    <<Len(nameBytes), 0>> \o BE32(lba) \o BE16(parent) \o nameBytes
    \o (IF Len(nameBytes) % 2 = 1 THEN <<0>> ELSE <<>>)

PathTableLE ==
    PathRecordBytesLE(Layout.root, 1, <<0>>)
    \o PathRecordBytesLE(Layout.boot, 1, BytesOf("BOOT"))
    \o PathRecordBytesLE(Layout.isolinux, 2, BytesOf("ISOLINUX"))
    \o PathRecordBytesLE(Layout.cfg, 3, BytesOf("CFG"))

PathTableBE ==
    PathRecordBytesBE(Layout.root, 1, <<0>>)
    \o PathRecordBytesBE(Layout.boot, 1, BytesOf("BOOT"))
    \o PathRecordBytesBE(Layout.isolinux, 2, BytesOf("ISOLINUX"))
    \o PathRecordBytesBE(Layout.cfg, 3, BytesOf("CFG"))

RootSelf == DirRecordBytes(Layout.root, 2048, modeDir, <<0>>)

RootDirSector ==
    PadTo(RootSelf
          \o DirRecordBytes(Layout.root, 2048, modeDir, <<1>>)
          \o DirRecordBytes(Layout.boot, 2048, modeDir, BytesOf("BOOT"))
          \o DirRecordBytes(Layout.empty, Layout.emptyLen, 0, BytesOf("EMPTY.;1")), 2048)

BootDirSector ==
    PadTo(DirRecordBytes(Layout.boot, 2048, modeDir, <<0>>)
          \o DirRecordBytes(Layout.root, 2048, modeDir, <<1>>)
          \o DirRecordBytes(Layout.initrd, Layout.initrdLen, 0, BytesOf("INITRD.IMG;1"))
          \o DirRecordBytes(Layout.isolinux, 2048, modeDir, BytesOf("ISOLINUX"))
          \o DirRecordBytes(Layout.vmlinuz, Layout.vmlinuzLen, 0, BytesOf("VMLINUZ64.;1")), 2048)

IsolinuxDirSector ==
    PadTo(DirRecordBytes(Layout.isolinux, 2048, modeDir, <<0>>)
          \o DirRecordBytes(Layout.boot, 2048, modeDir, <<1>>)
          \o DirRecordBytes(Layout.bootcat, Layout.bootcatLen, 0, BytesOf("BOOT.CAT;1"))
          \o DirRecordBytes(Layout.cfg, 2048, modeDir, BytesOf("CFG")), 2048)

CfgDirSector ==
    PadTo(DirRecordBytes(Layout.cfg, 2048, modeDir, <<0>>)
          \o DirRecordBytes(Layout.isolinux, 2048, modeDir, <<1>>), 2048)

\* The primary volume descriptor: type 1, the identifier, version 1, the
\* block size at 128, the path table size at 132, its two addresses at 140
\* and 148, the root directory record at 156.
PrimarySector ==
    LET head == <<1>> \o BytesOf(magic) \o <<1>>
        a == WriteAt(Zeros(2048), 0, head)
        b == WriteAt(a, 128, LE16(2048) \o BE16(2048))
        c == WriteAt(b, 132, LE32(Len(PathTableLE)) \o BE32(Len(PathTableLE)))
        d == WriteAt(c, 140, LE32(Layout.pathTableLE))
        e == WriteAt(d, 148, BE32(Layout.pathTableBE))
    IN WriteAt(e, 156, RootSelf)

TerminatorSector == PadTo(<<255>> \o BytesOf(magic) \o <<1>>, 2048)

IsoBytes ==
    Zeros(16 * 2048) \o PrimarySector \o TerminatorSector
    \o PadTo(PathTableLE, 2048) \o PadTo(PathTableBE, 2048)
    \o RootDirSector \o BootDirSector \o IsolinuxDirSector \o CfgDirSector
    \o PadTo(Content(Layout.vmlinuz, Layout.vmlinuzLen), 3 * 2048)
    \o PadTo(Content(Layout.initrd, Layout.initrdLen), 2048)
    \o PadTo(Content(Layout.bootcat, Layout.bootcatLen), 2048)

\* The medium as iso9660.Open sees it: one OS file in a MultiFile, probed by
\* NewImage.
IsoBuffer == NewMultiFile(<<BytesSource(IsoBytes)>>)

IsoImage == [buffer |-> IsoBuffer, sector |-> sectorFormats[NewImage(IsoBuffer).format]]

\* The same medium cut short after CutSectors sectors: the third sector of
\* the kernel, the initrd and the boot catalog are missing.
CutSectors == 26

CutBuffer == NewMultiFile(<<BytesSource(SubSeq(IsoBytes, 1, CutSectors * 2048))>>)

CutImage == [buffer |-> CutBuffer, sector |-> sectorFormats[NewImage(CutBuffer).format]]

----------------------------------------------------------------------------
(* File: a handle on a directory record *)
(* A catalog c is the part of a FileSystem that construction fixes:        *)
(* [r, pvd, svd, paths].  The part that calls change, [curdir, dirs,       *)
(* files], is the variable fs.                                             *)

\* len(dp.buf) and of the buffers of ReadAt, buildPaths and buildCache
DirBufLen == maxSectorLength * 2

\* makeFile.  dp.buf is kept up to dp.end only: no byte of the Go buffer
\* past end is read before a sector read overwrites it.
makeFile(d) ==
    [fi |-> d,
     dp |-> [buf |-> <<>>, start |-> 0, end |-> 0, lba |-> d.LBA, eof |-> FALSE],
     off |-> 0]

\* resetDir that forgets to rewind the sector cursor.
resetDirKeepsLba(f) ==
    [f EXCEPT !.dp = [buf |-> <<>>, start |-> 0, end |-> 0, lba |-> f.dp.lba, eof |-> FALSE]]

\* File.resetDir
resetDir(f) ==
    [f EXCEPT !.dp = [buf |-> <<>>, start |-> 0, end |-> 0, lba |-> f.fi.LBA, eof |-> FALSE]]

\* The loop of File.Readdir.  b, s, e, lba are the locals of the same names,
\* i the bytes of records taken in this call, fi the records collected.
RECURSIVE ReaddirLoop(_, _, _, _, _, _, _, _, _)

\* The end of Readdir after a break: the cursor is stored in dp.
ReaddirLeave(f, b, s, e, lba, eof, fi) ==
    [f |-> [f EXCEPT !.dp = [buf |-> SubSeq(b, 1, e), start |-> s, end |-> e,
                             lba |-> lba, eof |-> eof]],
     fi |-> fi, err |-> "nil"]

\* readDir failed on b[s:e]: the rest has been moved to the front of b
\* (moved) and rs is what ReadSector(lba, b[e-s:]) returned.  On an error
\* Readdir returns at once: the cursor keeps its values of the call's start.
ReaddirFilled(c, f, n, b, s, e, lba, i, fi, rs, filled) ==
    IF rs.err # "nil"
    THEN [f |-> [f EXCEPT !.dp.buf = SubSeq(filled, 1, f.dp.end)], fi |-> fi, err |-> rs.err]
    ELSE ReaddirLoop(c, f, n, filled, 0,
                     (IF rs.n > c.pvd.BlockSize THEN c.pvd.BlockSize ELSE rs.n) + e - s,
                     lba + 1, i, fi)

ReaddirRefill(c, f, n, b, s, e, lba, i, fi, rs) ==
    ReaddirFilled(c, f, n, b, s, e, lba, i, fi, rs,
                  WriteAt(WriteAt(b, 0, Slice(b, s, e)), e - s, rs.data))

\* readDir returned the record d with a size other than zero; s has moved
\* past it and fi holds it.
ReaddirTaken(c, f, n, b, s, e, lba, i, fi) ==
    IF n > 0 /\ Len(fi) >= n THEN ReaddirLeave(f, b, s, e, lba, f.dp.eof, fi)
    ELSE ReaddirLoop(c, f, n, b, s, e, lba, i, fi)

\* readDir returned the record d.  A record of size zero ends the directory:
\* with nothing collected the call returns io.EOF and the deferred resetDir
\* runs.
ReaddirRecord(c, f, n, b, s, e, lba, i, fi, d) ==
    IF d.Siz = 0
    THEN IF fi = <<>>
         THEN [f |-> resetDir(f), fi |-> fi, err |-> "EOF"]
         ELSE ReaddirLeave(f, b, s, e, lba, TRUE, fi)
    ELSE ReaddirTaken(c, f, n, b, IF s + d.Siz > e THEN e ELSE s + d.Siz, e, lba,
                      i + d.Siz, Append(fi, d))

ReaddirStep(c, f, n, b, s, e, lba, i, fi, rd) ==
    IF rd.err # "nil"
    THEN ReaddirRefill(c, f, n, b, s, e, lba, i, fi, ReadSector(c.r, lba, DirBufLen - (e - s)))
    ELSE ReaddirRecord(c, f, n, b, s, e, lba, i, fi, rd.d)

ReaddirLoop(c, f, n, b, s, e, lba, i, fi) ==
    IF f.fi.Length # 0 /\ i >= f.fi.Length THEN ReaddirLeave(f, b, s, e, lba, f.dp.eof, fi)
    ELSE ReaddirStep(c, f, n, b, s, e, lba, i, fi, readDir(Slice(b, s, e)))

\* File.Readdir(n): the handle after the call, the records and the error.
Readdir(c, f, n) ==
    IF ~IsDir(f.fi) THEN [f |-> f, fi |-> <<>>, err |-> "ErrNotDir"]
    ELSE IF f.dp.eof THEN [f |-> resetDir(f), fi |-> <<>>, err |-> "EOF"]
         ELSE ReaddirLoop(c, f, n, f.dp.buf, f.dp.start, f.dp.end, f.dp.lba, 0, <<>>)

\* The loop of File.ReadAt: lba and s are the locals of the same names, n the
\* bytes delivered so far, lbas the sectors read so far.  A failed sector read
\* leaves the loop with the error dropped (err is shadowed in the loop).
RECURSIVE ReadAtLoop(_, _, _, _, _, _, _, _, _)

\* m bytes of b have been copied to p[n:].
ReadAtCopied(c, f, length, off, lba, n, data, lbas, b, m) ==
    IF n + m >= length \/ off + m >= f.fi.Length
    THEN [n |-> n + m, err |-> "nil", data |-> data \o SubSeq(b, 1, m), lbas |-> lbas]
    ELSE ReadAtLoop(c, f, length, off, lba + 1, 0, n + m, data \o SubSeq(b, 1, m), lbas)

\* b is buf[s:e], the part of the sector that belongs to the read.
ReadAtCopy(c, f, length, off, lba, n, data, lbas, b) ==
    ReadAtCopied(c, f, length, off, lba, n, data, lbas, b, Min(length - n, Len(b)))

\* e is the end of the sector (nr, at most a block) before it is cut to what
\* is left of the file.
ReadAtClip(c, f, length, off, lba, s, n, data, lbas, rs, e) ==
    ReadAtCopy(c, f, length, off, lba, n, data, lbas,
               Slice(rs.data, s, IF f.fi.Length - (off + n) < e - s
                                  THEN s + (f.fi.Length - (off + n)) ELSE e))

ReadAtSector(c, f, length, off, lba, s, n, data, lbas, rs) ==
    IF rs.err # "nil" THEN [n |-> n, err |-> "nil", data |-> data, lbas |-> lbas]
    ELSE ReadAtClip(c, f, length, off, lba, s, n, data, lbas, rs,
                    IF rs.n > c.pvd.BlockSize THEN c.pvd.BlockSize ELSE rs.n)

ReadAtLoop(c, f, length, off, lba, s, n, data, lbas) ==
    ReadAtSector(c, f, length, off, lba, s, n, data, Append(lbas, lba),
                 ReadSector(c.r, lba, DirBufLen))

\* ReadAt that starts every read at the head of a sector.
ReadAtSectorAligned(c, f, length, off) ==
    IF IsDir(f.fi) THEN [n |-> 0, err |-> "ErrIsDir", data |-> <<>>, lbas |-> <<>>]
    ELSE IF off >= f.fi.Length THEN [n |-> 0, err |-> "EOF", data |-> <<>>, lbas |-> <<>>]
    ELSE IF off < 0 THEN [n |-> 0, err |-> "ErrInvalid", data |-> <<>>, lbas |-> <<>>]
    ELSE ReadAtLoop(c, f, length, off, f.fi.LBA + (off \div c.pvd.BlockSize),
                    0, 0, <<>>, <<>>)

\* File.ReadAt(p, off) with len(p) = length: the count, the error, the bytes
\* stored in p[0:n] and the sectors it asked the Reader for.
ReadAt(c, f, length, off) ==
    IF IsDir(f.fi) THEN [n |-> 0, err |-> "ErrIsDir", data |-> <<>>, lbas |-> <<>>]
    ELSE IF off >= f.fi.Length THEN [n |-> 0, err |-> "EOF", data |-> <<>>, lbas |-> <<>>]
    ELSE IF off < 0 THEN [n |-> 0, err |-> "ErrInvalid", data |-> <<>>, lbas |-> <<>>]
    ELSE IF c.pvd.BlockSize = 0
         THEN [n |-> 0, err |-> "panic: integer divide by zero", data |-> <<>>, lbas |-> <<>>]
         ELSE ReadAtLoop(c, f, length, off, f.fi.LBA + (off \div c.pvd.BlockSize),
                         off % c.pvd.BlockSize, 0, <<>>, <<>>)

\* The end of File.Read: the offset advances by the count.
ReadMoved(f, r) ==
    [f |-> [f EXCEPT !.off = f.off + r.n], n |-> r.n, err |-> r.err, data |-> r.data]

\* Read that reports end-of-data together with the last bytes of the file.
ReadEofWithLastBytes(c, f, length) ==
    [ReadMoved(f, ReadAt(c, f, length, f.off)) EXCEPT
        !.err = IF @ = "nil" /\ f.off + length >= f.fi.Length THEN "EOF" ELSE @]

\* File.Read: ReadAt at the handle's offset.
Read(c, f, length) == ReadMoved(f, ReadAt(c, f, length, f.off))

\* The end of File.Seek.
SeekTo(f, target) ==
    IF target < 0 THEN [f |-> f, n |-> 0, err |-> "ErrInvalid"]
    ELSE [f |-> [f EXCEPT !.off = target], n |-> target, err |-> "nil"]

\* Seek that measures SEEK_END from the start of the file.
SeekEndFromStart(f, off, whence) ==
    IF whence \notin {SEEK_SET, SEEK_CUR, SEEK_END} THEN [f |-> f, n |-> 0, err |-> "ErrInvalid"]
    ELSE SeekTo(f, IF whence = SEEK_CUR THEN off + f.off ELSE off)

\* File.Seek
Seek(f, off, whence) ==
    IF whence \notin {SEEK_SET, SEEK_CUR, SEEK_END} THEN [f |-> f, n |-> 0, err |-> "ErrInvalid"]
    ELSE SeekTo(f, IF whence = SEEK_SET THEN off
                   ELSE IF whence = SEEK_CUR THEN off + f.off
                        ELSE f.fi.Length + off)

\* File.Stat
Stat(f) == [fi |-> f.fi, err |-> "nil"]

----------------------------------------------------------------------------
(* FileSystem: construction *)

\* The zero primaryVolumeDescriptor
NoVolume == [BlockSize |-> 0, Root |-> NoDirectory, PathTableSize |-> 0, PathTable |-> <<0, 0>>]

\* The fields findVolumes takes from a type 1 or type 2 descriptor sector;
\* buf is the whole sector buffer.
VolumeOf(buf) ==
    [BlockSize |-> Uint16LE(buf, 128),
     Root |-> readDir(Slice(buf, 156, Len(buf))).d,
     PathTableSize |-> Uint32LE(buf, 132),
     PathTable |-> <<Uint32LE(buf, 140), Uint32BE(buf, 148)>>]

\* The loop of findVolumes from a sector on: the error, and pvd and svd as
\* they stand when it returns.
RECURSIVE FindVolumesFrom(_, _, _, _)

\* findVolumes that accepts a descriptor of any block size.
FindVolumesDecodedAnySize(r, sector, pvd, svd, v) == FindVolumesFrom(r, sector + 1, pvd, svd)

\* A type 1 or type 2 descriptor has been decoded into pvd or svd.
FindVolumesDecoded(r, sector, pvd, svd, v) ==
    IF v.BlockSize > SectorSize(r)
    THEN [err |-> "invalid block size", pvd |-> pvd, svd |-> svd]
    ELSE FindVolumesFrom(r, sector + 1, pvd, svd)

\* The switch on the type of the descriptor in buf.
FindVolumesSwitch(r, sector, pvd, svd, buf) ==
    IF buf[1] = 1 THEN FindVolumesDecoded(r, sector, VolumeOf(buf), svd, VolumeOf(buf))
    ELSE IF buf[1] = 2 THEN FindVolumesDecoded(r, sector, pvd, VolumeOf(buf), VolumeOf(buf))
         ELSE IF buf[1] = 255 THEN [err |-> "nil", pvd |-> pvd, svd |-> svd]
              ELSE FindVolumesFrom(r, sector + 1, pvd, svd)

FindVolumesRead(r, sector, pvd, svd, rs) ==
    IF rs.err # "nil" THEN [err |-> rs.err, pvd |-> pvd, svd |-> svd]
    ELSE FindVolumesSwitch(r, sector, pvd, svd, PadTo(rs.data, maxSectorLength))

FindVolumesFrom(r, sector, pvd, svd) ==
    IF sector >= NumSectors(r)
    THEN [err |-> "could not find primary volume descriptor", pvd |-> pvd, svd |-> svd]
    ELSE FindVolumesRead(r, sector, pvd, svd, ReadSector(r, sector, maxSectorLength))

\* FileSystem.findVolumes
findVolumes(r) == FindVolumesFrom(r, 16, NoVolume, NoVolume)

\* The loop of buildPaths: n the bytes of the table decoded so far, paths
\* the records appended to fs.paths.
RECURSIVE BuildPathsLoop(_, _, _, _, _, _, _, _, _)

\* readPath failed on b[s:e]: rs is what ReadSector(lba, b[e-s:]) returned.
BuildPathsRefill(r, pvd, order, lba, b, s, e, n, paths, rs) ==
    IF rs.err # "nil" THEN paths
    ELSE BuildPathsLoop(r, pvd, order, lba + 1,
                        WriteAt(WriteAt(b, 0, Slice(b, s, e)), e - s, rs.data), 0,
                        (IF rs.n > pvd.BlockSize THEN pvd.BlockSize ELSE rs.n) + e - s,
                        n, paths)

BuildPathsStep(r, pvd, order, lba, b, s, e, n, paths, rp) ==
    IF rp.err # "nil"
    THEN BuildPathsRefill(r, pvd, order, lba, b, s, e, n, paths,
                          ReadSector(r, lba, DirBufLen - (e - s)))
    ELSE BuildPathsLoop(r, pvd, order, lba, b,
                        IF s + rp.p.Size > e THEN e ELSE s + rp.p.Size, e,
                        n + rp.p.Size, Append(paths, rp.p))

BuildPathsLoop(r, pvd, order, lba, b, s, e, n, paths) ==
    IF n >= pvd.PathTableSize THEN paths
    ELSE BuildPathsStep(r, pvd, order, lba, b, s, e, n, paths, readPath(order, Slice(b, s, e)))

\* FileSystem.buildPaths: the little-endian table, or the big-endian one when
\* the address of the first is zero.
buildPaths(r, pvd) ==
    BuildPathsLoop(r, pvd, IF pvd.PathTable[1] # 0 THEN "LE" ELSE "BE",
                   IF pvd.PathTable[1] # 0 THEN pvd.PathTable[1] ELSE pvd.PathTable[2],
                   <<>>, 0, 0, 0, <<>>)

\* The loop of fullPath: paths is indexed from 0 in the code, so the code's
\* fs.paths[p.Parent] is paths[p.Parent + 1] here.
RECURSIVE FullPathLoop(_, _, _)

FullPathUp(paths, p, str, up) ==
    IF up.Parent = p.Parent THEN str
    ELSE FullPathLoop(paths, up, up.Name \o "/" \o str)

FullPathLoop(paths, p, str) ==
    IF ~(0 <= p.Parent /\ p.Parent < Len(paths)) THEN str
    ELSE FullPathUp(paths, p, str, paths[p.Parent + 1])

\* FileSystem.fullPath
fullPath(paths, p) == Clean("/" \o FullPathLoop(paths, p, p.Name))

\* buildCache's inner loop over the records of one directory.
RECURSIVE CacheRecords(_, _, _)

\* One record d of the directory, under the path name.
CacheRecord(cache, d, name) ==
    IF IsDir(d)
    THEN [cache EXCEPT !.dirs = @ \cup {name}]
    ELSE [cache EXCEPT !.files = [k \in DOMAIN @ \cup {name} |-> IF k = name THEN d ELSE @[k]]]

CacheRecords(cache, base, fi) ==
    IF fi = <<>> THEN cache
    ELSE CacheRecords(CacheRecord(cache, Head(fi), Join(base, NameOf(Head(fi)))), base, Tail(fi))

\* buildCache's loop over the path table entries from entry k on.
RECURSIVE BuildCacheFrom(_, _, _)

\* listed is what Readdir(-1) returned on the handle made of the entry.
BuildCacheListed(c, k, cache, listed) ==
    IF listed.err # "nil" THEN BuildCacheFrom(c, k + 1, cache)
    ELSE BuildCacheFrom(c, k + 1, CacheRecords(cache, fullPath(c.paths, c.paths[k]), listed.fi))

\* probed is what ReadSector returned on the first sector of the entry.
BuildCacheProbed(c, k, cache, p, probed) ==
    IF probed.err # "nil" THEN BuildCacheFrom(c, k + 1, cache)
    ELSE BuildCacheListed(c, k, cache,
             Readdir(c, makeFile([NoDirectory EXCEPT !.LBA = p.LBA, !.Nam = p.Name,
                                                     !.Flags = modeDir]), -1))

BuildCacheFrom(c, k, cache) ==
    IF k > Len(c.paths) THEN cache
    ELSE BuildCacheProbed(c, k, cache, c.paths[k], ReadSector(c.r, c.paths[k].LBA, DirBufLen))

\* FileSystem.buildCache: dirs and files.  files maps a path to the record of
\* the File stored for it.
buildCache(c) == BuildCacheFrom(c, 1, [dirs |-> {}, files |-> <<>>])

\* The end of NewFileSystem: the catalog is complete and the cache built.
FileSystemOf(c, cache) ==
    [err |-> "nil", c |-> c, fs |-> [curdir |-> "/", dirs |-> cache.dirs, files |-> cache.files]]

FileSystemOver(c) == FileSystemOf(c, buildCache(c))

FileSystemOn(r, v) ==
    IF v.err # "nil" THEN [err |-> v.err]
    ELSE FileSystemOver([r |-> r, pvd |-> v.pvd, svd |-> v.svd, paths |-> buildPaths(r, v.pvd)])

\* NewFileSystem(r): the error, the catalog and the first value of fs.
NewFileSystem(r) == FileSystemOn(r, findVolumes(r))

----------------------------------------------------------------------------
(* FileSystem: Open, Chdir, Getwd *)

\* The loop of splitPath.
RECURSIVE SplitPathLoop(_, _)

\* dir is the directory part without its trailing slash.
SplitPathInto(toks, sp, dir) ==
    IF sp.dir = "" /\ sp.base = "" THEN toks
    ELSE IF sp.base = "" THEN Append(toks, IF dir = "" THEN "." ELSE dir)
         ELSE SplitPathLoop(dir, Append(toks, sp.base))

SplitPathAt(toks, sp) ==
    SplitPathInto(toks, sp,
                  IF Len(sp.dir) > 0 /\ CharAt(sp.dir, Len(sp.dir)) = "/"
                  THEN SubSeq(sp.dir, 1, Len(sp.dir) - 1) ELSE sp.dir)

SplitPathLoop(str, toks) == IF str = "" THEN toks ELSE SplitPathAt(toks, Split(str))

\* splitPath: the elements of a path, last first.
splitPath(name) == SplitPathLoop(ToUpper(Clean(name)), <<>>)

\* The batch size Open asks Readdir for
OpenBatch == 1024

\* The first record of fi named tok, as a one-element sequence, or none.
Matching(fi, tok) == SelectSeq(fi, LAMBDA d : NameOf(d) = tok)

\* The descent of Open: toks[i] (0-based) is looked up in the listing of f.
RECURSIVE OpenWalk(_, _, _, _)

OpenMatch(c, f, toks, i, hit) ==
    IF hit # <<>> THEN OpenWalk(c, makeFile(hit[1]), toks, i - 1)
    ELSE OpenWalk(c, f, toks, i)

\* r is what f.Readdir(1024) returned.
OpenListed(c, f, toks, i, r) ==
    IF r.err = "EOF" THEN [f |-> f, err |-> "ErrNotExist"]
    ELSE IF r.err # "nil" THEN [f |-> f, err |-> r.err]
         ELSE OpenMatch(c, r.f, toks, i, Matching(r.fi, toks[i + 1]))

OpenWalk(c, f, toks, i) ==
    IF i < 0 THEN [f |-> f, err |-> "nil"]
    ELSE OpenListed(c, f, toks, i, Readdir(c, f, OpenBatch))

OpenFrom(c, toks) == OpenWalk(c, makeFile(c.pvd.Root), toks, Len(toks) - 1)

OpenNamed(c, fsys, xname) ==
    IF xname \in DOMAIN fsys.files
    THEN [f |-> makeFile(fsys.files[xname]), err |-> "nil"]
    ELSE OpenFrom(c, splitPath(xname))

\* FileSystem.Open(name): the handle and the error.
Open(c, fsys, name) ==
    IF name = "" THEN [f |-> makeFile(NoDirectory), err |-> "ErrNotExist"]
    ELSE OpenNamed(c, fsys, Join(fsys.curdir, ToUpper(name)))

\* The walk of Chdir for a path not among the confirmed directories: o is
\* what Open of the dot returned with the working directory set to dir.
ChdirWalked(fsys, dir, o) ==
    IF o.err # "nil" THEN [fs |-> fsys, err |-> "ErrNotExist"]
    ELSE IF ~IsDir(o.f.fi) THEN [fs |-> fsys, err |-> "ErrNotDir"]
         ELSE [fs |-> [fsys EXCEPT !.dirs = @ \cup {dir}, !.curdir = dir], err |-> "nil"]

ChdirTo(c, fsys, dir) ==
    IF dir \in DOMAIN fsys.files THEN [fs |-> fsys, err |-> "ErrNotDir"]
    ELSE IF dir \notin fsys.dirs
         THEN ChdirWalked(fsys, dir, Open(c, [fsys EXCEPT !.curdir = dir], "."))
         ELSE [fs |-> [fsys EXCEPT !.curdir = dir], err |-> "nil"]

ChdirJoined(c, fsys, joined) ==
    ChdirTo(c, fsys, IF joined = "." \/ joined = "" THEN "/" ELSE joined)

\* FileSystem.Chdir(dir): fs after the call and the error.
Chdir(c, fsys, name) == ChdirJoined(c, fsys, ToUpper(Join(fsys.curdir, name)))

\* FileSystem.Getwd
Getwd(fsys) == fsys.curdir

\* The file system on the medium, as iso9660.Open constructs it.
Iso == NewFileSystem(IsoImage)

\* The file system constructed over the medium cut short.
Cut == NewFileSystem(CutImage)

----------------------------------------------------------------------------
(* What is on the medium, written down independently of the decoder *)

\* Every entry of the medium by its absolute path: where it lies, how long
\* it is, whether it is a directory.
Tree ==
    [p \in {"/", "/BOOT", "/BOOT/ISOLINUX", "/BOOT/ISOLINUX/CFG", "/EMPTY.;1",
            "/BOOT/INITRD.IMG;1", "/BOOT/VMLINUZ64.;1", "/BOOT/ISOLINUX/BOOT.CAT;1"} |->
        CASE p = "/" -> [lba |-> Layout.root, len |-> 2048, dir |-> TRUE]
          [] p = "/BOOT" -> [lba |-> Layout.boot, len |-> 2048, dir |-> TRUE]
          [] p = "/BOOT/ISOLINUX" -> [lba |-> Layout.isolinux, len |-> 2048, dir |-> TRUE]
          [] p = "/BOOT/ISOLINUX/CFG" -> [lba |-> Layout.cfg, len |-> 2048, dir |-> TRUE]
          [] p = "/EMPTY.;1" -> [lba |-> Layout.empty, len |-> Layout.emptyLen, dir |-> FALSE]
          [] p = "/BOOT/INITRD.IMG;1" ->
                [lba |-> Layout.initrd, len |-> Layout.initrdLen, dir |-> FALSE]
          [] p = "/BOOT/VMLINUZ64.;1" ->
                [lba |-> Layout.vmlinuz, len |-> Layout.vmlinuzLen, dir |-> FALSE]
          [] p = "/BOOT/ISOLINUX/BOOT.CAT;1" ->
                [lba |-> Layout.bootcat, len |-> Layout.bootcatLen, dir |-> FALSE]]

\* The names a listing of each directory holds, in on-disk order.
Listing ==
    [p \in {"/", "/BOOT", "/BOOT/ISOLINUX", "/BOOT/ISOLINUX/CFG"} |->
        CASE p = "/" -> <<".", "..", "BOOT", "EMPTY.;1">>
          [] p = "/BOOT" -> <<".", "..", "INITRD.IMG;1", "ISOLINUX", "VMLINUZ64.;1">>
          [] p = "/BOOT/ISOLINUX" -> <<".", "..", "BOOT.CAT;1", "CFG">>
          [] p = "/BOOT/ISOLINUX/CFG" -> <<".", "..">>]

\* The absolute paths that are the first k elements of elems.
RECURSIVE PrefixPath(_, _)
PrefixPath(elems, k) ==
    IF k = 0 THEN "/"
    ELSE IF k = 1 THEN "/" \o elems[1]
         ELSE PrefixPath(elems, k - 1) \o "/" \o elems[k]

\* How an absolute cleaned path resolves on the medium: to an entry
\* (found), through an entry that is no directory (notdir), or not at all
\* because an element has no entry of that name in its parent (missing).
Resolution(path) ==
    LET elems == IF path = "/" THEN <<>> ELSE Elements(SubSeq(path, 2, Len(path)))
        n == Len(elems)
        known(k) == PrefixPath(elems, k) \in DOMAIN Tree
    IN IF \E k \in 0..(n - 1) : known(k) /\ ~Tree[PrefixPath(elems, k)].dir
       THEN LET k == CHOOSE j \in 0..(n - 1) :
                        /\ known(j) /\ ~Tree[PrefixPath(elems, j)].dir
                        /\ \A i \in 0..j : known(i)
            IN IF \A i \in 0..k : known(i) THEN "notdir" ELSE "missing"
       ELSE IF \A k \in 0..n : known(k) THEN "found" ELSE "missing"

----------------------------------------------------------------------------
(* The calls a client makes: one action per call of the API.               *)
(* ret is what the last call was given and returned; hist is what the      *)
(* client remembers of the calls before it.                                *)

Ret0 ==
    [op |-> "none", name |-> "", cwd |-> "", xname |-> "", len |-> 0, off |-> 0,
     whence |-> 0, before |-> 0, err |-> "nil", n |-> 0, data |-> <<>>, fi |-> <<>>,
     again |-> FALSE, prev |-> <<>>, names |-> <<>>, opened |-> {}, closed |-> {},
     lbas |-> <<>>, val |-> <<>>]

NoHandle == [open |-> FALSE, path |-> "", f |-> makeFile(NoDirectory)]

Hist0 ==
    [subject |-> "fs", calls |-> 0, ops |-> <<>>, size |-> -1, acc |-> <<>>, first |-> <<>>,
     last |-> <<>>, done |-> 0]

\* The completed enumerations a handle is followed through.
MaxEnums == 2

\* The calls made on one file handle, or on one MultiFile.
MaxCalls == 3

OpenNames ==
    {"", ".", "/BOOT", "boot/initrd.img;1", "BOOT/VMLINUZ64.;1", "BOOT/ISOLINUX/BOOT.CAT;1",
     "ISOLINUX/BOOT.CAT;1", "EMPTY.;1/X", "BOOT/NOPE", "NOPE/X", "BOOT.CAT;1/X"}

ChdirNames ==
    {"/", "..", "BOOT", "/BOOT", "ISOLINUX", "CFG", "boot/isolinux/cfg",
     "EMPTY.;1", "EMPTY.;1/X", "NOPE"}

DirNames == {".", "BOOT", "BOOT/ISOLINUX", "BOOT/ISOLINUX/CFG", "EMPTY.;1"}

ReaddirCounts == {-1, 0, 1, 2, 3}

\* fs.Open(name) on the file system of catalog c.  again says that the call before was the same call and
\* succeeded; prev is then the record that call returned.
OpenOn(c, name) ==
    LET o == Open(c, fs, name)
        same == ret.op = "Open" /\ ret.name = name /\ ret.cwd = fs.curdir /\ ret.err = "nil"
    IN /\ hist.subject = "fs"
       /\ fh' = IF o.err = "nil"
                THEN [open |-> TRUE, path |-> Join(fs.curdir, ToUpper(name)), f |-> o.f]
                ELSE NoHandle
       /\ ret' = [Ret0 EXCEPT !.op = "Open", !.name = name, !.cwd = fs.curdir,
                              !.xname = Join(fs.curdir, ToUpper(name)), !.err = o.err,
                              !.fi = IF o.err = "nil" THEN <<o.f.fi>> ELSE <<>>,
                              !.again = same, !.prev = IF same THEN ret.fi ELSE <<>>]
       /\ hist' = Hist0
       /\ UNCHANGED <<fs, mf, probe>>

\* fs.Open(name) on the file system of the whole medium.
DoOpen(name) == OpenOn(Iso.c, name)

\* fs.Chdir(name).  The client lets go of its handle when it changes
\* directory.
DoChdir(name) ==
    LET r == Chdir(Iso.c, fs, name)
        same == ret.op = "Chdir" /\ ret.name = name /\ ret.err = "nil"
    IN /\ hist.subject = "fs"
       /\ fs' = r.fs
       /\ ret' = [Ret0 EXCEPT !.op = "Chdir", !.name = name, !.cwd = fs.curdir,
                              !.xname = ToUpper(Join(fs.curdir, name)), !.err = r.err,
                              !.again = same]
       /\ fh' = NoHandle
       /\ hist' = Hist0
       /\ UNCHANGED <<mf, probe>>

\* f.Readdir(n) on the open handle, of catalog c.  The client keeps the records returned
\* since the last end-of-directory (acc) and, at each end-of-directory, the
\* enumeration just completed (last) and the first one completed (first).
ReaddirOn(c, n) ==
    LET r == Readdir(c, fh.f, n)
        acc == hist.acc \o r.fi
    IN /\ fh.open
       /\ hist.done < MaxEnums
       /\ fh' = [fh EXCEPT !.f = r.f]
       /\ ret' = [Ret0 EXCEPT !.op = "Readdir", !.len = n, !.err = r.err, !.fi = r.fi,
                              !.n = Len(r.fi)]
       /\ hist' = IF r.err = "EOF"
                  THEN [hist EXCEPT !.acc = <<>>, !.last = acc, !.done = @ + 1,
                                    !.first = IF hist.done = 0 THEN acc ELSE @]
                  ELSE [hist EXCEPT !.acc = acc]
       /\ UNCHANGED <<fs, mf, probe>>

\* f.Readdir(n) on a handle of the whole medium.
DoReaddir(n) == ReaddirOn(Iso.c, n)

FileNames ==
    {"BOOT/VMLINUZ64.;1", "BOOT/INITRD.IMG;1", "BOOT/ISOLINUX/BOOT.CAT;1", "EMPTY.;1", "BOOT"}

ReadLens == {0, 7, 2048, 4196}
ReadAtLens == {0, 3, 7, 2048, 4196, 5000}
ReadAtOffs == {-1, 0, 4, 9, 10, 2047, 2049, 4195, 4196, 6000}
SeekOffs == {-1, 0, 10, 5000}
Whences == {SEEK_SET, SEEK_CUR, SEEK_END, 3}

\* What a call on the handle adds to the client's notes.
Called(op) == [hist EXCEPT !.calls = @ + 1, !.ops = Append(@, op)]

\* f.Stat() on the open handle; the client notes the size.
DoStat ==
    LET r == Stat(fh.f)
    IN /\ fh.open
       /\ hist.calls < MaxCalls
       /\ ret' = [Ret0 EXCEPT !.op = "Stat", !.err = r.err, !.fi = <<r.fi>>, !.n = SizeOf(r.fi)]
       /\ hist' = [Called("Stat") EXCEPT !.size = SizeOf(r.fi)]
       /\ UNCHANGED <<fs, fh, mf, probe>>

\* An accessor of the record the last Stat returned: the client keeps what
\* it answers in val.  An accessor that panics stops the program.
Accessed(op, err, val) ==
    /\ ret.op \in {"Stat", "Size", "IsDir", "Name", "Mode", "ModTime"}
    /\ ret.err = "nil"
    /\ ret' = [ret EXCEPT !.op = op, !.err = err, !.val = val]
    /\ UNCHANGED <<fs, fh, hist, mf, probe>>

DoSize == Accessed("Size", "nil", <<SizeOf(ret.fi[1])>>)

DoIsDir == Accessed("IsDir", "nil", <<IsDir(ret.fi[1])>>)

DoName == Accessed("Name", "nil", <<NameOf(ret.fi[1])>>)

DoMode == Accessed("Mode", "nil", <<Mode(ret.fi[1])>>)

DoModTime == Accessed("ModTime", ModTime(ret.fi[1]).err, ModTime(ret.fi[1]).t)

\* f.Read(p), len(p) = length, on the open handle; the client appends what
\* it was given to acc.
DoRead(length) ==
    LET r == Read(Iso.c, fh.f, length)
    IN /\ fh.open
       /\ hist.calls < MaxCalls
       /\ fh' = [fh EXCEPT !.f = r.f]
       /\ ret' = [Ret0 EXCEPT !.op = "Read", !.len = length, !.before = fh.f.off,
                              !.err = r.err, !.n = r.n, !.data = r.data]
       /\ hist' = [Called("Read") EXCEPT !.acc = @ \o r.data]
       /\ UNCHANGED <<fs, mf, probe>>

\* f.ReadAt(p, off), len(p) = length, the one call made on a fresh handle of
\* catalog c: ReadAt neither reads nor writes the state of the handle.  ret
\* keeps the sectors the call asked the Reader for.
ReadAtOn(c, length, off) ==
    LET r == ReadAt(c, fh.f, length, off)
    IN /\ fh.open
       /\ hist.calls = 0
       /\ ret' = [Ret0 EXCEPT !.op = "ReadAt", !.len = length, !.off = off,
                              !.err = r.err, !.n = r.n, !.data = r.data, !.lbas = r.lbas]
       /\ hist' = [Called("ReadAt") EXCEPT !.calls = MaxCalls]
       /\ UNCHANGED <<fs, fh, mf, probe>>

\* f.ReadAt(p, off) on a handle of the whole medium.
DoReadAt(length, off) == ReadAtOn(Iso.c, length, off)

\* f.Seek(off, whence) on the open handle.
DoSeek(off, whence) ==
    LET r == Seek(fh.f, off, whence)
    IN /\ fh.open
       /\ hist.calls < MaxCalls
       /\ fh' = [fh EXCEPT !.f = r.f]
       /\ ret' = [Ret0 EXCEPT !.op = "Seek", !.off = off, !.whence = whence,
                              !.before = fh.f.off, !.err = r.err, !.n = r.n]
       /\ hist' = Called("Seek")
       /\ UNCHANGED <<fs, mf, probe>>

\* The sources a MultiFile is built from: at most MaxSources files of at
\* most MaxSourceSize bytes, the bytes of file i being 10*i + 1, 10*i + 2, ...
MaxSources == 3
MaxSourceSize == 2

SourceOf(i, size) == BytesSource([k \in 1..size |-> 10 * i + k])

SourceLists ==
    UNION {{[i \in 1..n |-> SourceOf(i, sizes[i])] : sizes \in [1..n -> 1..MaxSourceSize]} :
           n \in 1..MaxSources}

MultiLens == 0..3
MultiOffs == -1..7
MultiSeekOffs == {-1, 0, 2, 9}

\* r.ReadAt(p, off), len(p) = length, on the MultiFile.
DoMultiReadAt(length, off) ==
    LET r == MultiReadAt(mf, length, off)
    IN /\ hist.subject = "multi"
       /\ hist.calls = 0
       /\ ret' = [Ret0 EXCEPT !.op = "MultiReadAt", !.len = length, !.off = off,
                              !.err = r.err, !.n = r.n, !.data = r.data]
       /\ hist' = [Called("MultiReadAt") EXCEPT !.calls = MaxCalls]
       /\ UNCHANGED <<fs, fh, mf, probe>>

\* r.Read(p), len(p) = length, on the MultiFile.
DoMultiRead(length) ==
    LET r == MultiRead(mf, length)
    IN /\ hist.subject = "multi"
       /\ hist.calls < MaxCalls
       /\ mf' = [mf EXCEPT !.pos = r.pos]
       /\ ret' = [Ret0 EXCEPT !.op = "MultiRead", !.len = length, !.before = mf.pos,
                              !.err = r.err, !.n = r.n, !.data = r.data]
       /\ hist' = [Called("MultiRead") EXCEPT !.acc = @ \o r.data]
       /\ UNCHANGED <<fs, fh, probe>>

\* r.Seek(off, whence) on the MultiFile.
DoMultiSeek(off, whence) ==
    LET r == MultiSeek(mf, off, whence)
    IN /\ hist.subject = "multi"
       /\ hist.calls < MaxCalls
       /\ mf' = [mf EXCEPT !.pos = r.pos]
       /\ ret' = [Ret0 EXCEPT !.op = "MultiSeek", !.off = off, !.whence = whence,
                              !.before = mf.pos, !.err = r.err, !.n = r.n]
       /\ hist' = Called("MultiSeek")
       /\ UNCHANGED <<fs, fh, probe>>

NoProbe ==
    [buffer |-> NewMultiFile(<<>>), geometry |-> 0, built |-> 0,
     result |-> [err |-> "none", format |-> 0]]

\* The least size of a buffer that holds logical sector 16 under format k.
HoldsSector16(k) == SectorPos(sectorFormats[k], 16) + sectorFormats[k].size

\* Buffers laid out with format k: zeros but for the magic at bytes [1,6) of
\* logical sector 16 under that format, of the least size that holds that
\* sector and of larger sizes.
LaidOut(k) ==
    {[NoProbe EXCEPT !.geometry = k,
                     !.buffer = NewMultiFile(<<BlankSource(size, {SectorPos(sectorFormats[k], 16)})>>)] :
        size \in {n \in {HoldsSector16(k), HoldsSector16(k) + 1, HoldsSector16(k) + 4096,
                         348840, 400000} : n >= HoldsSector16(k)}}

\* Buffers of zeros, with the magic nowhere.
Unformatted ==
    {[NoProbe EXCEPT !.buffer = NewMultiFile(<<BlankSource(size, {})>>)] :
        size \in {0, 1000, 32767, 32768, 34816, 348839, 348840, 400000}}

SectorLbas == {0, 16, 17, 200}
SectorBufLens == {100, minSectorLength, maxSectorLength}

\* NewImage(b) on the buffer.
DoNewImage ==
    /\ hist.subject = "image"
    /\ probe.built = 0
    /\ probe' = [probe EXCEPT !.built = 1, !.result = NewImage(probe.buffer)]
    /\ ret' = [Ret0 EXCEPT !.op = "NewImage", !.err = NewImage(probe.buffer).err]
    /\ UNCHANGED <<fs, fh, hist, mf>>

\* m.ReadSector(lba, b), len(b) = blen, on the image NewImage returned.
DoReadSector(lba, blen) ==
    LET img == [buffer |-> probe.buffer, sector |-> sectorFormats[probe.result.format]]
        r == ReadSector(img, lba, blen)
    IN /\ hist.subject = "image"
       /\ probe.built = 1
       /\ probe.result.err = "nil"
       /\ ret' = [Ret0 EXCEPT !.op = "ReadSector", !.len = blen, !.off = lba, !.err = r.err,
                              !.n = r.n, !.data = r.data]
       /\ UNCHANGED <<fs, fh, hist, mf, probe>>

\* The state iso9660.Open returns in: the file system constructed, no
\* handle open.
Init ==
    /\ fs = Iso.fs
    /\ fh = NoHandle
    /\ ret = Ret0
    /\ hist = Hist0
    /\ mf = NewMultiFile(<<>>)
    /\ probe = NoProbe

\* A client that resolves paths.
Next ==
    \/ \E name \in OpenNames : DoOpen(name)
    \/ \E name \in ChdirNames : DoChdir(name)

Spec == Init /\ [][Next]_vars

\* A client that lists directories.
NextDir ==
    \/ \E name \in DirNames : DoOpen(name)
    \/ \E n \in ReaddirCounts : DoReaddir(n)

SpecDir == Init /\ [][NextDir]_vars

\* Either the file system over the medium, or a MultiFile over small sources.
InitRead ==
    \/ Init
    \/ /\ fs = Iso.fs
       /\ fh = NoHandle
       /\ ret = Ret0
       /\ hist = [Hist0 EXCEPT !.subject = "multi"]
       /\ mf \in {NewMultiFile(files) : files \in SourceLists}
       /\ probe = NoProbe

\* A client that reads: files of the medium through File handles, and a
\* MultiFile directly.
NextRead ==
    \/ \E name \in FileNames : DoOpen(name)
    \/ DoStat
    \/ \E length \in ReadLens : DoRead(length)
    \/ \E length \in ReadAtLens, off \in ReadAtOffs : DoReadAt(length, off)
    \/ \E off \in SeekOffs, whence \in Whences : DoSeek(off, whence)
    \/ \E length \in MultiLens, off \in MultiOffs : DoMultiReadAt(length, off)
    \/ \E length \in MultiLens : DoMultiRead(length)
    \/ \E off \in MultiSeekOffs, whence \in Whences : DoMultiSeek(off, whence)

SpecRead == InitRead /\ [][NextRead]_vars

\* A buffer that NewImage has not seen yet.
InitImage ==
    /\ fs = Iso.fs
    /\ fh = NoHandle
    /\ ret = Ret0
    /\ hist = [Hist0 EXCEPT !.subject = "image"]
    /\ mf = NewMultiFile(<<>>)
    /\ probe \in Unformatted \cup UNION {LaidOut(k) : k \in 1..Len(sectorFormats)}

\* A client that makes an image of a buffer and reads sectors of it.
NextImage ==
    \/ DoNewImage
    \/ \E lba \in SectorLbas, blen \in SectorBufLens : DoReadSector(lba, blen)

SpecImage == InitImage /\ [][NextImage]_vars

\* fs.Open(name) and f.ReadAt(p, off) on the file system of the medium cut
\* short.
DoOpenCut(name) == OpenOn(Cut.c, name)

DoReadAtCut(length, off) == ReadAtOn(Cut.c, length, off)

\* The state iso9660.Open returns in on the medium cut short.
InitCut ==
    /\ fs = Cut.fs
    /\ fh = NoHandle
    /\ ret = Ret0
    /\ hist = Hist0
    /\ mf = NewMultiFile(<<>>)
    /\ probe = NoProbe

\* A client that reads files of a medium cut short.
NextCut ==
    \/ \E name \in FileNames : DoOpenCut(name)
    \/ \E length \in ReadAtLens, off \in ReadAtOffs : DoReadAtCut(length, off)

SpecCut == InitCut /\ [][NextCut]_vars

\* A catalog before findVolumes has run.
NoCatalog == [r |-> [buffer |-> NewMultiFile(<<>>), sector |-> sectorFormats[1]],
              pvd |-> NoVolume, svd |-> NoVolume, paths |-> <<>>]

\* The longest run of volume descriptors on a medium.
MaxRun == 3

\* The volume descriptors a medium may carry from sector 16 on: boot
\* records, primary and supplementary descriptors of several block sizes,
\* terminators.
Descriptors ==
    {[type |-> 0, bs |-> 0], [type |-> 255, bs |-> 0]}
    \cup {[type |-> 1, bs |-> b] : b \in {0, 2048, 2336, 4096}}
    \cup {[type |-> 2, bs |-> b] : b \in {2048, 4096}}

DescriptorRuns == UNION {[1..n -> Descriptors] : n \in 1..MaxRun}

\* The sector formats the media are laid out in: ISO 2048 and RAW 2336.
RunFormats == {1, 2}

\* What descriptor d writes on the medium at byte at: the type, the
\* identifier and the version, and for types 1 and 2 the block size at 128
\* and the root directory record at 156, the root directory lying at
\* sector root.  The path table is left empty.
DescriptorPatches(d, at, root) ==
    <<[at |-> at, bytes |-> <<d.type>> \o BytesOf(magic) \o <<1>>]>>
    \o (IF d.type \in {1, 2}
        THEN <<[at |-> at + 128, bytes |-> LE16(d.bs) \o BE16(d.bs)],
               [at |-> at + 156, bytes |-> DirRecordBytes(root, 2048, modeDir, <<0>>)]>>
        ELSE <<>>)

RECURSIVE RunPatches(_, _, _, _)
RunPatches(run, i, unit, root) ==
    IF i > Len(run) THEN <<>>
    ELSE DescriptorPatches(run[i], (15 + i) * unit, root) \o RunPatches(run, i + 1, unit, root)

\* The root directory of such a medium, with the one file F.;1 of 10 bytes
\* in the sector after it.
RunRootDir(root) ==
    DirRecordBytes(root, 2048, modeDir, <<0>>) \o DirRecordBytes(root, 2048, modeDir, <<1>>)
    \o DirRecordBytes(root + 1, 10, 0, BytesOf("F.;1"))

\* The medium that carries the run from sector 16 on, then the root
\* directory, then the file, in sectors of unit bytes.
RunSource(run, unit, root) ==
    PatchedSource((root + 2) * unit,
                  RunPatches(run, 1, unit, root)
                  \o <<[at |-> root * unit, bytes |-> RunRootDir(root)],
                       [at |-> (root + 1) * unit, bytes |-> Content(root + 1, 10)]>>)

\* The medium probed by NewImage, as iso9660.Open has it before it calls
\* NewFileSystem.
RunProbeOf(run, k, buffer) ==
    [buffer |-> buffer, geometry |-> k, built |-> 1, result |-> NewImage(buffer),
     run |-> run, c |-> NoCatalog]

RunProbe(run, k) ==
    RunProbeOf(run, k, NewMultiFile(<<RunSource(run, sectorFormats[k].size, 16 + Len(run))>>))

\* NewFileSystem(r) on the image of the medium.
DoNewFileSystem ==
    LET r == NewFileSystem([buffer |-> probe.buffer,
                            sector |-> sectorFormats[probe.result.format]])
    IN /\ probe.built = 1
       /\ probe.result.err = "nil"
       /\ ret.op = "none"
       /\ ret' = [Ret0 EXCEPT !.op = "NewFileSystem", !.err = r.err]
       /\ probe' = IF r.err = "nil" THEN [probe EXCEPT !.built = 2, !.c = r.c] ELSE probe
       /\ fs' = IF r.err = "nil" THEN r.fs ELSE fs
       /\ UNCHANGED <<fh, hist, mf>>

\* fs.Open(name) and f.ReadAt(p, off) on the file system constructed.
DoOpenBuilt(name) == probe.built = 2 /\ OpenOn(probe.c, name)

DoReadAtBuilt(length, off) == probe.built = 2 /\ ReadAtOn(probe.c, length, off)

BuiltNames == {".", "F.;1", "NOPE"}

BuiltLens == {0, 4, 10, 20}

BuiltOffs == {0, 5, 10}

\* A medium that NewFileSystem has not seen yet; fs is the FileSystem value
\* NewFileSystem starts from.
InitVolumes ==
    /\ fs = [curdir |-> "/", dirs |-> {}, files |-> <<>>]
    /\ fh = NoHandle
    /\ ret = Ret0
    /\ hist = Hist0
    /\ mf = NewMultiFile(<<>>)
    /\ probe \in {RunProbe(run, k) : run \in DescriptorRuns, k \in RunFormats}

\* A client that constructs the file system and reads the file of the medium.
NextVolumes ==
    \/ DoNewFileSystem
    \/ \E name \in BuiltNames : DoOpenBuilt(name)
    \/ \E length \in BuiltLens, off \in BuiltOffs : DoReadAtBuilt(length, off)

SpecVolumes == InitVolumes /\ [][NextVolumes]_vars

\* A directory record of siz bytes: the record and its name, then a system
\* use area of zeros up to the size.
DirRecordSized(lba, len, flags, nameBytes, siz) ==
    <<siz>> \o Tail(PadTo(DirRecordBytes(lba, len, flags, nameBytes), siz))

\* Where the directories of the packed medium lie: the root, whose records
\* fill its sector to the last byte, then SUB, then LAST, which is packed
\* too and is the last sector of the medium.
PackedLayout == [root |-> 18, sub |-> 19, last |-> 20, sectors |-> 21]

\* Empty files of the given names, each in a record of 254 bytes but for
\* the last, which takes the tail bytes that are left of the sector.
RECURSIVE PackedFiles(_, _)
PackedFiles(names, tail) ==
    IF names = <<>> THEN <<>>
    ELSE DirRecordSized(0, 0, 0, BytesOf(Head(names)), IF Len(names) = 1 THEN tail ELSE 254)
         \o PackedFiles(Tail(names), tail)

PackedRootDir ==
    DirRecordBytes(PackedLayout.root, 2048, modeDir, <<0>>)
    \o DirRecordBytes(PackedLayout.root, 2048, modeDir, <<1>>)
    \o DirRecordBytes(PackedLayout.last, 2048, modeDir, BytesOf("LAST"))
    \o DirRecordBytes(PackedLayout.sub, 2048, modeDir, BytesOf("SUB"))
    \o PackedFiles(<<"A.;1", "B.;1", "C.;1", "D.;1", "E.;1", "F.;1", "G.;1", "H.;1">>, 128)

PackedSubDir ==
    DirRecordBytes(PackedLayout.sub, 2048, modeDir, <<0>>)
    \o DirRecordBytes(PackedLayout.root, 2048, modeDir, <<1>>)
    \o DirRecordBytes(0, 0, 0, BytesOf("S.;1"))

PackedLastDir ==
    DirRecordBytes(PackedLayout.last, 2048, modeDir, <<0>>)
    \o DirRecordBytes(PackedLayout.root, 2048, modeDir, <<1>>)
    \o PackedFiles(<<"P.;1", "Q.;1", "R.;1", "T.;1", "U.;1", "V.;1", "W.;1", "X.;1">>, 202)

\* The packed medium: a primary descriptor and a terminator, then the three
\* directories.
PackedSource ==
    PatchedSource(PackedLayout.sectors * 2048,
                  DescriptorPatches([type |-> 1, bs |-> 2048], 16 * 2048, PackedLayout.root)
                  \o DescriptorPatches([type |-> 255, bs |-> 0], 17 * 2048, 0)
                  \o <<[at |-> PackedLayout.root * 2048, bytes |-> PackedRootDir],
                       [at |-> PackedLayout.sub * 2048, bytes |-> PackedSubDir],
                       [at |-> PackedLayout.last * 2048, bytes |-> PackedLastDir]>>)

PackedBuffer == NewMultiFile(<<PackedSource>>)

PackedImage ==
    [buffer |-> PackedBuffer, sector |-> sectorFormats[NewImage(PackedBuffer).format]]

\* The file system constructed over the packed medium.
Packed == NewFileSystem(PackedImage)

\* The names each directory of the packed medium holds within its extent,
\* in on-disk order.
PackedListing ==
    [p \in {"/", "/SUB", "/LAST"} |->
        CASE p = "/" -> <<".", "..", "LAST", "SUB", "A.;1", "B.;1", "C.;1", "D.;1", "E.;1",
                          "F.;1", "G.;1", "H.;1">>
          [] p = "/SUB" -> <<".", "..", "S.;1">>
          [] p = "/LAST" -> <<".", "..", "P.;1", "Q.;1", "R.;1", "T.;1", "U.;1", "V.;1",
                              "W.;1", "X.;1">>]

\* fs.Open(name) and f.Readdir(n) on the file system of the packed medium.
DoOpenPacked(name) == OpenOn(Packed.c, name)

DoReaddirPacked(n) == ReaddirOn(Packed.c, n)

PackedNames == {".", "SUB", "LAST"}

\* The state iso9660.Open returns in on the packed medium.
InitPacked ==
    /\ fs = Packed.fs
    /\ fh = NoHandle
    /\ ret = Ret0
    /\ hist = Hist0
    /\ mf = NewMultiFile(<<>>)
    /\ probe = NoProbe

\* A client that lists the directories of the packed medium.
NextPacked ==
    \/ \E name \in PackedNames : DoOpenPacked(name)
    \/ \E n \in ReaddirCounts : DoReaddirPacked(n)

SpecPacked == InitPacked /\ [][NextPacked]_vars

\* The paths the client of SpecStat opens.
StatNames == OpenNames \cup DirNames

\* fs.Open(name) and f.Stat() in a program that has not panicked.
DoOpenRunning(name) == ret.err # IndexPanic /\ DoOpen(name)

DoStatRunning == ret.err # IndexPanic /\ DoStat

\* A client that opens entries and looks at their records.
NextStat ==
    \/ \E name \in StatNames : DoOpenRunning(name)
    \/ DoStatRunning
    \/ DoSize
    \/ DoIsDir
    \/ DoName
    \/ DoMode
    \/ DoModTime

SpecStat == Init /\ [][NextStat]_vars

\* The named sources a MultiFile is constructed from: at most MaxSources
\* names, each missing, or open but without a size, or of a size that alone
\* is in range.
NamedSources ==
    {[kind |-> "missing", size |-> 0], [kind |-> "unstatable", size |-> 0]}
    \cup {[kind |-> "file", size |-> n] : n \in {1, 2^(OffBits - 2), 2^(OffBits - 1) - 1}}

NameLists == UNION {[1..n -> NamedSources] : n \in 0..MaxSources}

\* NewMultiFile(name...).  ret keeps the sources the call opened and the
\* sources closed when it returned.
DoNewMultiFile(names) ==
    /\ hist.subject = "sources"
    /\ ret.op = "none"
    /\ ret' = LET r == NewMultiFileOn(names)
              IN [Ret0 EXCEPT !.op = "NewMultiFile", !.names = names, !.err = r.err,
                              !.opened = r.opened, !.closed = r.closed]
    /\ UNCHANGED <<fs, fh, hist, mf, probe>>

\* r.Close() on the MultiFile a successful NewMultiFile returned.
DoMultiClose ==
    /\ hist.subject = "sources"
    /\ ret.op = "NewMultiFile"
    /\ ret.err = "nil"
    /\ ret' = [ret EXCEPT !.op = "Close", !.closed = MultiClose(ret.opened)]
    /\ UNCHANGED <<fs, fh, hist, mf, probe>>

\* Named sources that NewMultiFile has not seen yet.
InitSources ==
    /\ fs = Iso.fs
    /\ fh = NoHandle
    /\ ret = Ret0
    /\ hist = [Hist0 EXCEPT !.subject = "sources"]
    /\ mf = NewMultiFile(<<>>)
    /\ probe = NoProbe

\* A client that constructs a MultiFile and closes it.
NextSources ==
    \/ \E names \in NameLists : DoNewMultiFile(names)
    \/ DoMultiClose

SpecSources == InitSources /\ [][NextSources]_vars

----------------------------------------------------------------------------
(* Path resolution: Open and Chdir (specification Spec) *)

\* The absolute, upper-case, cleaned paths.
IsNormalized(p) == p # "" /\ CharAt(p, 1) = "/" /\ ToUpper(Clean(p)) = p

\* C3: for Open and for Chdir, a path that runs through an entry that is no
\* directory fails with not-a-directory, and a path one of whose elements
\* has no entry of that name in its parent fails with not-exist.
C3_PathErrors ==
    (ret.op \in {"Open", "Chdir"} /\ ret.name # "") =>
        /\ Resolution(ret.xname) = "notdir" => ret.err = "ErrNotDir"
        /\ Resolution(ret.xname) = "missing" => ret.err = "ErrNotExist"

\* C7: Chdir succeeds only on a path that resolves on the medium to a
\* directory, it fails with not-a-directory on one that resolves to a file,
\* and after a success the working directory is that path and the path is
\* in the set of confirmed directories.
C7_ChdirOnlyToDirectories ==
    ret.op = "Chdir" =>
        /\ ret.err = "nil" =>
              /\ Resolution(ret.xname) = "found" /\ Tree[ret.xname].dir
              /\ fs.curdir = ret.xname
              /\ ret.xname \in fs.dirs
        /\ (Resolution(ret.xname) = "found" /\ ~Tree[ret.xname].dir) => ret.err = "ErrNotDir"

\* C8: for a normalized path P of an entry of the medium, a second Open(P)
\* right after a successful Open(P) succeeds with an equal record, and a
\* second Chdir(P) right after a successful Chdir(P) succeeds and leaves the
\* working directory equal to P.
C8_Idempotent ==
    (ret.again /\ IsNormalized(ret.name) /\ ret.name \in DOMAIN Tree) =>
        /\ ret.op = "Open" => (ret.err = "nil" /\ ret.fi = ret.prev)
        /\ ret.op = "Chdir" => (ret.err = "nil" /\ fs.curdir = ret.name)

----------------------------------------------------------------------------
(* Directory enumeration (specification SpecDir) *)

\* The cursor of a handle as makeFile and resetDir leave it.
CursorAtStart(f) ==
    f.dp = [buf |-> <<>>, start |-> 0, end |-> 0, lba |-> f.fi.LBA, eof |-> FALSE]

Names(fi) == [i \in 1..Len(fi) |-> NameOf(fi[i])]

\* C6: whenever Readdir reports end-of-directory the cursor of the handle is
\* back at the start of the directory, and the enumeration that this report
\* ends is the same sequence of records as the first enumeration on the
\* handle.
C6_Restartable ==
    (ret.op = "Readdir" /\ ret.err = "EOF") =>
        /\ CursorAtStart(fh.f)
        /\ hist.last = hist.first

\* A second enumeration of /BOOT has ended, and both returned its five
\* records.
C6_Witness ==
    /\ ret.op = "Readdir" /\ ret.err = "EOF"
    /\ hist.done = 2
    /\ fh.path = "/BOOT"
    /\ Names(hist.last) = Listing["/BOOT"]

----------------------------------------------------------------------------
(* Reading (specification SpecRead) *)

\* The handle is on a file of the medium, and these are its bytes.
OnFile == fh.open /\ fh.path \in DOMAIN Tree /\ ~Tree[fh.path].dir
FileContent == Content(Tree[fh.path].lba, Tree[fh.path].len)

OnlyReads(ops) == \A i \in 1..Len(ops) : ops[i] = "Read"

\* C1: on a file of length L, ReadAt at an offset o in [0, L) returns
\* n = min(len(p), L - o) bytes, the bytes o .. o+n of the content, and at an
\* offset o >= L it returns no byte and end-of-data; and what successive
\* Reads return, put end to end, is the content from its first byte on.
C1_ReadAtContent ==
    /\ (ret.op = "ReadAt" /\ OnFile /\ ret.off >= 0) =>
          LET L == Tree[fh.path].len
          IN IF ret.off >= L
             THEN ret.n = 0 /\ ret.err = "EOF"
             ELSE /\ ret.n = Min(ret.len, L - ret.off)
                  /\ ret.n <= L - ret.off
                  /\ ret.data = SubSeq(FileContent, ret.off + 1, ret.off + ret.n)
    /\ (ret.op = "Read" /\ OnFile /\ OnlyReads(hist.ops)) =>
          /\ Len(hist.acc) = fh.f.off
          /\ hist.acc = SubSeq(FileContent, 1, Len(hist.acc))

\* A ReadAt of 4196 bytes at offset 2047 of the 4196-byte kernel has returned
\* the 2149 bytes that were left, taken from three sectors.
C1_Witness ==
    /\ ret.op = "ReadAt" /\ fh.path = "/BOOT/VMLINUZ64.;1"
    /\ ret.off = 2047 /\ ret.len = 4196
    /\ ret.n = 2149 /\ ret.err = "nil"
    /\ ret.data = SubSeq(FileContent, 2048, 4196)

ExtractedNames == {"/BOOT/VMLINUZ64.;1", "/BOOT/INITRD.IMG;1"}

\* C2: from the initial working directory, Open of BOOT/VMLINUZ64.;1 and of
\* BOOT/INITRD.IMG;1 succeeds, Stat reports the length of the content, and
\* one Read into a buffer of that size returns the whole content and no
\* error.
C2_Extraction ==
    /\ (ret.op = "Open" /\ ret.cwd = "/" /\ ret.xname \in ExtractedNames) =>
          (ret.err = "nil" /\ fh.open)
    /\ (ret.op = "Stat" /\ fh.path \in ExtractedNames) =>
          (ret.err = "nil" /\ hist.size = Tree[fh.path].len)
    /\ (ret.op = "Read" /\ fh.path \in ExtractedNames /\ hist.ops = <<"Stat", "Read">>
        /\ ret.len = hist.size) =>
          (ret.err = "nil" /\ ret.n = hist.size /\ ret.data = FileContent)

\* The kernel has been extracted: Open, Stat, and one Read of 4196 bytes.
C2_Witness ==
    /\ ret.op = "Read" /\ fh.path = "/BOOT/VMLINUZ64.;1"
    /\ hist.ops = <<"Stat", "Read">>
    /\ ret.len = hist.size /\ ret.n = 4196 /\ ret.err = "nil"
    /\ ret.data = FileContent

\* The sources of a MultiFile put end to end.
RECURSIVE Concatenated(_)
Concatenated(files) ==
    IF files = <<>> THEN <<>> ELSE files[1].bytes \o Concatenated(Tail(files))

\* C4: ReadAt on a MultiFile returns the count and the bytes that a read of
\* its sources put end to end returns, and reports end-of-data only when
\* the read reaches the combined end.
C4_Concatenation ==
    (ret.op = "MultiReadAt" /\ ret.off >= 0) =>
        LET all == Concatenated(mf.files)
            n == Max(0, Min(ret.len, Len(all) - ret.off))
        IN /\ ret.n = n
           /\ ret.data = SubSeq(all, ret.off + 1, ret.off + n)
           /\ ret.err = "EOF" => ret.off + ret.len >= Len(all)

\* What Seek on either kind of handle is claimed to do.
SeekAsClaimed ==
    ret.op \in {"Seek", "MultiSeek"} =>
        LET pos == IF ret.op = "Seek" THEN fh.f.off ELSE mf.pos
            size == IF ret.op = "Seek" THEN fh.f.fi.Length ELSE mf.size
            target == IF ret.whence = SEEK_SET THEN ret.off
                      ELSE IF ret.whence = SEEK_CUR THEN ret.before + ret.off
                           ELSE size + ret.off
        IN IF ret.whence \notin {SEEK_SET, SEEK_CUR, SEEK_END} \/ target < 0
           THEN ret.err # "nil" /\ pos = ret.before
           ELSE ret.err = "nil" /\ pos = target /\ ret.n = target

\* A Read was made at or past the end of the data.
ReadAtEnd ==
    \/ ret.op = "Read" /\ fh.open /\ ret.before >= fh.f.fi.Length
    \/ ret.op = "MultiRead" /\ ret.before >= mf.size

----------------------------------------------------------------------------
(* Making an image of a buffer (specification SpecImage) *)

\* C5: NewImage on a buffer laid out with one of the ten sector formats, of
\* any size that holds logical sector 16 under that format and with the
\* magic at that sector only, succeeds and selects that format.
C5_SelectsGeometry ==
    (probe.built = 1 /\ probe.geometry # 0) =>
        (probe.result.err = "nil" /\ probe.result.format = probe.geometry)

\* The magic is at bytes [1,6) of logical sector 16 of the buffer under
\* format k.
MagicAt(b, k) ==
    LET at == SectorPos(sectorFormats[k], 16)
    IN /\ at >= 0
       /\ at + 6 <= b.size
       /\ StringOf(MultiReadAt(b, 5, at + 1).data) = magic

\* C10: NewImage returns image.ErrFormat, and no other error, when no
\* sector format has the magic at its logical sector 16, and when the
\* buffer is smaller than 16 sectors.
C10_FormatError ==
    (probe.built = 1 /\ (probe.buffer.size < 16 * minSectorLength
                         \/ \A k \in 1..Len(sectorFormats) : ~MagicAt(probe.buffer, k))) =>
        probe.result.err = "ErrFormat"

\* The sector format of the image ReadSector was called on, and the bytes
\* the buffer holds from the position of the sector asked for (ret.off) on.
ProbedSector == sectorFormats[probe.result.format]

Available == Max(0, probe.buffer.size - SectorPos(ProbedSector, ret.off))

\* C11: ReadSector(lba, b) at a position inside the buffer's range fails
\* with the short-buffer error when len(b) is less than the sector size,
\* with the unexpected-end-of-data error when fewer than 2048 bytes are
\* available at the position, and never there with ordinary end-of-data;
\* when a whole sector is available and b holds one it returns the bytes of
\* the sector at lba * size + start + offset.
C11_ReadSector ==
    (ret.op = "ReadSector" /\ SectorPos(ProbedSector, ret.off) >= 0) =>
        /\ (ret.len < ProbedSector.size /\ Available >= minSectorLength) =>
              ret.err = "ErrShortBuffer"
        /\ Available < minSectorLength => ret.err \in {"ErrShortBuffer", "ErrUnexpectedEOF"}
        /\ (ret.len >= ProbedSector.size /\ Available < minSectorLength) =>
              ret.err = "ErrUnexpectedEOF"
        /\ (ret.len >= ProbedSector.size /\ Available >= ProbedSector.size) =>
              /\ ret.err = "nil"
              /\ ret.n = ProbedSector.size
              /\ ret.data = SrcBytes(probe.buffer.files[1], SectorPos(ProbedSector, ret.off),
                                     ProbedSector.size)

----------------------------------------------------------------------------
(* Constructing a MultiFile (specification SpecSources) *)

\* C12: whenever NewMultiFile returns an error, every source it opened has
\* been closed by the time it returns.
C12_ClosesOnError ==
    (ret.op = "NewMultiFile" /\ ret.err # "nil") => ret.closed = ret.opened

----------------------------------------------------------------------------
(* The cache construction builds (specification Spec) *)

\* C13: every file of the medium listed in a directory of the path table is
\* in the files cache under its true absolute path, with its own record, and
\* every key of the files cache and every confirmed directory is the
\* absolute path of an entry of that kind on the medium.
C13_CachePaths ==
    /\ \A p \in DOMAIN Tree :
          ~Tree[p].dir =>
              /\ p \in DOMAIN fs.files
              /\ fs.files[p].LBA = Tree[p].lba
              /\ fs.files[p].Length = Tree[p].len
    /\ DOMAIN fs.files \subseteq {p \in DOMAIN Tree : ~Tree[p].dir}
    /\ fs.dirs \subseteq {p \in DOMAIN Tree : Tree[p].dir}

----------------------------------------------------------------------------
(* Reading a medium cut short (specification SpecCut) *)

\* C14: a ReadAt at an offset inside a file returns min(len(p), L - off)
\* bytes, or an error that is not nil: it never returns a count short of
\* both the destination and the declared end together with no error.
C14_ReadAtReportsFailure ==
    (ret.op = "ReadAt" /\ ~IsDir(fh.f.fi) /\ ret.off >= 0 /\ ret.off < SizeOf(fh.f.fi)) =>
        \/ ret.n = Min(ret.len, SizeOf(fh.f.fi) - ret.off)
        \/ ret.err # "nil"

----------------------------------------------------------------------------
(* Constructing the file system (specification SpecVolumes) *)

\* The first n descriptors of the run are no terminator, and those of type
\* 1 or 2 among them have a block size that fits the sector.
Passable(run, n, size) ==
    \A j \in 1..n :
        /\ run[j].type # 255
        /\ run[j].type \in {1, 2} => run[j].bs <= size

\* The run has a terminator that the scan from sector 16 reaches.
Terminated(run, size) ==
    \E t \in 1..Len(run) : run[t].type = 255 /\ Passable(run, t - 1, size)

\* C15: the construction succeeds exactly when the descriptors from sector
\* 16 on reach a terminator with every type 1 or type 2 descriptor before
\* it having a block size no greater than the sector size, and in every
\* file system constructed the block sizes of the primary and of the
\* supplementary descriptor are no greater than the sector size.
C15_FindVolumes ==
    ret.op = "NewFileSystem" =>
        /\ ret.err = "nil" <=> Terminated(probe.run, sectorFormats[probe.geometry].size)
        /\ ret.err = "nil" =>
              /\ probe.c.pvd.BlockSize <= SectorSize(probe.c.r)
              /\ probe.c.svd.BlockSize <= SectorSize(probe.c.r)

\* The file system has been constructed on a RAW 2336 medium whose primary
\* descriptor has a block size of 2336 bytes, after a boot record and before
\* the terminator.
C15_Witness ==
    /\ ret.op = "NewFileSystem" /\ ret.err = "nil"
    /\ probe.geometry = 2
    /\ probe.run = <<[type |-> 0, bs |-> 0], [type |-> 1, bs |-> 2336], [type |-> 255, bs |-> 0]>>
    /\ probe.c.pvd.BlockSize = 2336

\* A primary descriptor lies in the run before the terminator the scan
\* reaches.
PrimaryBeforeTerminator(run, size) ==
    \E t \in 1..Len(run) :
        /\ run[t].type = 255
        /\ Passable(run, t - 1, size)
        /\ \E j \in 1..(t - 1) : run[j].type = 1

\* C16: the construction succeeds only on a medium with a primary
\* descriptor before the terminator, the block size of the primary
\* descriptor of every file system constructed is greater than zero, and no
\* ReadAt on a handle of such a file system divides by zero.
C16_PrimaryDecoded ==
    /\ (ret.op = "NewFileSystem" /\ ret.err = "nil") =>
          /\ PrimaryBeforeTerminator(probe.run, sectorFormats[probe.geometry].size)
          /\ probe.c.pvd.BlockSize > 0
    /\ ret.op = "ReadAt" => ret.err # "panic: integer divide by zero"

----------------------------------------------------------------------------
(* Enumerating packed directories (specification SpecPacked) *)

\* s is the sequence t or the front of it.
IsPrefix(s, t) == Len(s) <= Len(t) /\ s = SubSeq(t, 1, Len(s))

\* C17: over the Readdir calls on one handle, whatever their counts, the
\* records returned since the start of an enumeration are the front of the
\* records that lie within the declared extent of the directory, in on-disk
\* order, and when end-of-directory is reported they are all of them.
C17_WithinExtent ==
    (ret.op = "Readdir" /\ fh.path \in DOMAIN PackedListing) =>
        /\ IsPrefix(Names(hist.acc), PackedListing[fh.path])
        /\ ret.err = "EOF" => Names(hist.last) = PackedListing[fh.path]

----------------------------------------------------------------------------
(* The sectors a read touches (specification SpecRead) *)

\* The number of sectors the extent of a file of the given length takes.
ExtentSectors(length) == (length + Iso.c.pvd.BlockSize - 1) \div Iso.c.pvd.BlockSize

\* C18: a ReadAt on a file at an offset inside its length, whatever the size
\* of the destination, reads only sectors of the extent of the file, from its
\* LBA up to the sectors its length takes, and no more sectors than those.
C18_ReadsOwnExtent ==
    (ret.op = "ReadAt" /\ OnFile /\ ret.off >= 0 /\ ret.off < Tree[fh.path].len) =>
        /\ \A i \in 1..Len(ret.lbas) :
              /\ ret.lbas[i] >= Tree[fh.path].lba
              /\ ret.lbas[i] < Tree[fh.path].lba + ExtentSectors(Tree[fh.path].len)
        /\ Len(ret.lbas) <= ExtentSectors(Tree[fh.path].len)

----------------------------------------------------------------------------
(* The record of a handle (specification SpecStat) *)

\* The time the records of the medium are stamped with: 18 June 2017,
\* 12:30:45, at GMT offset 0.
StampTime ==
    [year |-> 2017, month |-> 6, day |-> 18, hour |-> 12, minute |-> 30, second |-> 45]

\* The identifier each entry of the medium is recorded under.
EntryName ==
    [p \in DOMAIN Tree \ {"/"} |->
        CASE p = "/BOOT" -> "BOOT"
          [] p = "/BOOT/ISOLINUX" -> "ISOLINUX"
          [] p = "/BOOT/ISOLINUX/CFG" -> "CFG"
          [] p = "/EMPTY.;1" -> "EMPTY.;1"
          [] p = "/BOOT/INITRD.IMG;1" -> "INITRD.IMG;1"
          [] p = "/BOOT/VMLINUZ64.;1" -> "VMLINUZ64.;1"
          [] p = "/BOOT/ISOLINUX/BOOT.CAT;1" -> "BOOT.CAT;1"]

\* C19: Stat never fails, and every accessor of the record it returns
\* completes without failure: Size is the declared length, IsDir the
\* directory flag, Name the decoded name and ModTime the time of the seven
\* timestamp bytes.
C19_StatAccessors ==
    /\ ret.op \in {"Stat", "Size", "IsDir", "Name", "Mode", "ModTime"} => ret.err = "nil"
    /\ (fh.path \in DOMAIN Tree /\ fh.path # "/") =>
          /\ ret.op = "Size" => ret.val = <<Tree[fh.path].len>>
          /\ ret.op = "IsDir" => ret.val = <<Tree[fh.path].dir>>
          /\ ret.op = "Name" => ret.val = <<EntryName[fh.path]>>
          /\ ret.op = "ModTime" => ret.val = <<StampTime>>

=============================================================================
